---- MODULE Spec2Model ----
(***************************************************************************)
(* State-machine model of CricketScoringService, the ball-by-ball cricket  *)
(* scoring engine (src/src/modules/events/interfaces/cricket.interface.ts).*)
(* One match is modelled: its MatchState, both InningsState slots, the     *)
(* event log, the undo stack and the notifications each call emits.        *)
(* BallBowledEvent objects are shared by reference between match.events,   *)
(* the undo stack and the per-over lists, so they live in eventStore and   *)
(* are referred to by id (their index in eventStore).                      *)
(***************************************************************************)
EXTENDS Integers, Sequences, FiniteSets, TLC

VARIABLES
  config,          \* match.config
  status,          \* match.status
  tossWinner,      \* match.tossWinner
  tossDecision,    \* match.tossDecision
  currentInnings,  \* match.currentInnings
  innings,         \* match.innings: the slots that are set, 1 and/or 2
  result,          \* match.result
  winningTeam,     \* match.winningTeam
  winMargin,       \* match.winMargin
  events,          \* match.events: ids, in order
  undoStack,       \* undoStack.get(matchId): ids, in order
  eventStore,      \* every BallBowledEvent object ever created, by id
  emitted,         \* what the last call handed to eventEmitter.emit, in order
  reply            \* how the last call ended: its name and the exception, if any

matchVars == <<config, status, tossWinner, tossDecision, currentInnings, innings,
               result, winningTeam, winMargin, events, undoStack, eventStore>>
vars == <<config, status, tossWinner, tossDecision, currentInnings, innings,
          result, winningTeam, winMargin, events, undoStack, eventStore,
          emitted, reply>>

\* ---------------------------------------------------------------- values

\* A property that is not set (undefined in the source).
Undefined == "undefined"
\* JavaScript truthiness of a string-valued property.
IsFalsy(v) == v \in {Undefined, ""}

\* An optional number or record: <<>> when not set, <<v>> when set.
None == <<>>
Some(v) == <<v>>
IsSome(o) == o # <<>>
Val(o) == o[1]

\* A rate n/d, kept as the exact fraction the division computes.
Rat(n, d) == [num |-> n, den |-> d]
ZeroRate == Rat(0, 1)

\* enum ExtraType
NONE == "none"
WIDE == "wide"
NO_BALL == "no_ball"
BYE == "bye"
LEG_BYE == "leg_bye"
PENALTY == "penalty"
ExtraType == {NONE, WIDE, NO_BALL, BYE, LEG_BYE, PENALTY}

\* enum WicketType
WicketType == {"bowled", "caught", "lbw", "run_out", "stumped", "hit_wicket",
               "retired_hurt", "retired_out", "timed_out", "obstructing_the_field"}

\* enum MatchStatus
PENDING == "pending"
TOSS == "toss"
ACTIVE == "active"
INNINGS_BREAK == "innings_break"
COMPLETED == "completed"
MatchStatus == {PENDING, TOSS, ACTIVE, INNINGS_BREAK, "paused", COMPLETED, "abandoned"}

\* enum InningsStatus
IN_PROGRESS == "in_progress"
INNINGS_COMPLETED == "completed"
InningsStatus == {"not_started", IN_PROGRESS, INNINGS_COMPLETED, "declared"}

\* The two teams of the match (dto.teamA.id, dto.teamB.id).
TeamA == "teamA"
TeamB == "teamB"

\* Legal deliveries in an over.
BallsPerOver == 6

\* ---------------------------------------------------------------- helpers

RECURSIVE SumSeq(_)
SumSeq(s) == IF s = <<>> THEN 0 ELSE Head(s) + SumSeq(Tail(s))

\* The least index of the set S of indices, 0 when S is empty
\* (Array.prototype.findIndex, with 0 for -1).
FirstIndex(S) == IF S = {} THEN 0 ELSE CHOOSE i \in S : \A j \in S : i <= j

\* Map.set
MapSet(m, k, v) == [x \in (DOMAIN m) \cup {k} |-> IF x = k THEN v ELSE m[x]]

EmptyMap == [x \in {} |-> 0]

\* ---------------------------------------------------------------- configuration

\* Math.ceil(a / b) for positive integers.
Ceil(a, b) == (a + b - 1) \div b

\* maxOversPerBowler of the DTO is optional: 0 stands for "not given".
validateAndNormalizeConfig(dto) ==
  [dto EXCEPT !.maxOversPerBowler =
     IF dto.maxOversPerBowler # 0 THEN dto.maxOversPerBowler
     ELSE Ceil(dto.oversPerInnings, 5)]

isPowerplayOver(over, cfg) == (over + 1) \in cfg.powerplayOvers

isLegalDelivery(extraType, cfg) ==
  IF extraType = WIDE /\ cfg.wideRedelivery THEN FALSE
  ELSE IF extraType = NO_BALL /\ cfg.noBallRedelivery THEN FALSE
  ELSE extraType # WIDE /\ extraType # NO_BALL

\* isWicketCreditedToBowler that credits every kind of dismissal.
isWicketCreditedToBowlerAlways(wicketType) == ~IsFalsy(wicketType)

isWicketCreditedToBowler(wicketType) ==
  IF IsFalsy(wicketType) THEN FALSE
  ELSE wicketType \in {"bowled", "caught", "lbw", "stumped", "hit_wicket"}

createBatsmanStats(playerId) ==
  [playerId |-> playerId, runs |-> 0, ballsFaced |-> 0, fours |-> 0, sixes |-> 0,
   strikeRate |-> ZeroRate, isOut |-> FALSE, dismissalType |-> Undefined,
   dismissedBy |-> Undefined, fielder |-> Undefined]

createBowlerStats(playerId) ==
  [playerId |-> playerId, overs |-> 0, balls |-> 0, maidens |-> 0, runsConceded |-> 0,
   wickets |-> 0, economyRate |-> ZeroRate, wides |-> 0, noBalls |-> 0, dotBalls |-> 0]

\* A notification handed to eventEmitter.emit: the event name and, for
\* commentary.trigger, the trigger.
Emit(name, trigger) == [name |-> name, trigger |-> trigger]

\* How a call ended: the exception's message (OK when it returned) and, for
\* processBall, the TokenReward list it returned.
Reply(op, error) == [op |-> op, error |-> error, rewards |-> <<>>]
OK == "ok"

\* ---------------------------------------------------------------- createMatch

\* The match as createMatch leaves it, for the configuration DTOs in dtos.
InitWith(dtos) ==
  /\ config \in {validateAndNormalizeConfig(d) : d \in dtos}
  /\ status = PENDING
  /\ tossWinner = Undefined
  /\ tossDecision = Undefined
  /\ currentInnings = 1
  /\ innings = EmptyMap
  /\ result = Undefined
  /\ winningTeam = Undefined
  /\ winMargin = Undefined
  /\ events = <<>>
  /\ undoStack = <<>>
  /\ eventStore = <<>>
  /\ emitted = <<Emit("match.created", Undefined)>>
  /\ reply = Reply("createMatch", OK)

\* A call that throws: nothing of the match changes, nothing is emitted.
Throws(op, message) ==
  /\ reply' = Reply(op, message)
  /\ emitted' = <<>>
  /\ UNCHANGED matchVars

\* ---------------------------------------------------------------- recordToss

\* recordToss without the check of the match status.
recordTossAnyStatus(dto) ==
  /\ tossWinner' = dto.tossWinner
  /\ tossDecision' = dto.decision
  /\ status' = TOSS
  /\ emitted' = <<Emit("match.toss", Undefined)>>
  /\ reply' = Reply("recordToss", OK)
  /\ UNCHANGED <<config, currentInnings, innings, result, winningTeam, winMargin,
                 events, undoStack, eventStore>>

recordToss(dto) ==
  IF status # PENDING
  THEN Throws("recordToss", "Toss can only be recorded for pending matches")
  ELSE /\ tossWinner' = dto.tossWinner
       /\ tossDecision' = dto.decision
       /\ status' = TOSS
       /\ emitted' = <<Emit("match.toss", Undefined)>>
       /\ reply' = Reply("recordToss", OK)
       /\ UNCHANGED <<config, currentInnings, innings, result, winningTeam, winMargin,
                      events, undoStack, eventStore>>

\* ---------------------------------------------------------------- startInnings

\* determineBattingTeam sending the toss winner in to bat whatever the decision.
determineBattingTeamWinnerBats(inningsNumber) ==
  IF inningsNumber = 1
  THEN IF tossWinner = TeamA THEN TeamA ELSE TeamB
  ELSE IF 1 \in DOMAIN innings /\ innings[1].battingTeamId = TeamA THEN TeamB ELSE TeamA

determineBattingTeam(inningsNumber) ==
  IF inningsNumber = 1
  THEN IF tossWinner = TeamA
       THEN (IF tossDecision = "bat" THEN TeamA ELSE TeamB)
       ELSE (IF tossDecision = "bat" THEN TeamB ELSE TeamA)
  ELSE IF 1 \in DOMAIN innings /\ innings[1].battingTeamId = TeamA THEN TeamB ELSE TeamA

NewPartnership(b1, b2, startScore) ==
  [batsman1 |-> b1, batsman2 |-> b2, runs |-> 0, balls |-> 0,
   startScore |-> startScore, endScore |-> None, isActive |-> TRUE]

NewInnings(inningsNumber, battingTeamId, bowlingTeamId, dto) ==
  [inningsNumber |-> inningsNumber,
   battingTeamId |-> battingTeamId,
   bowlingTeamId |-> bowlingTeamId,
   status |-> IN_PROGRESS,
   totalRuns |-> 0,
   wickets |-> 0,
   overs |-> 0,
   balls |-> 0,
   extras |-> [wides |-> 0, noBalls |-> 0, byes |-> 0, legByes |-> 0,
               penalties |-> 0, total |-> 0],
   runRate |-> ZeroRate,
   batsmanOnStrike |-> dto.openingBatsman1,
   batsmanNonStrike |-> dto.openingBatsman2,
   currentBowler |-> dto.openingBowler,
   batsmanStats |-> MapSet(MapSet(EmptyMap, dto.openingBatsman1,
                                  createBatsmanStats(dto.openingBatsman1)),
                           dto.openingBatsman2, createBatsmanStats(dto.openingBatsman2)),
   bowlerStats |-> MapSet(EmptyMap, dto.openingBowler, createBowlerStats(dto.openingBowler)),
   partnerships |-> <<NewPartnership(dto.openingBatsman1, dto.openingBatsman2, 0)>>,
   fallOfWickets |-> <<>>,
   overHistory |-> <<(<<>>)>>,
   target |-> None,
   requiredRunRate |-> None,
   requiredRuns |-> None,
   remainingBalls |-> None]

\* startInnings setting the target of the second innings to the first innings'
\* total, without the run that wins the match.
startInningsTargetIsTotal(dto) ==
  IF status # TOSS /\ status # INNINGS_BREAK
  THEN Throws("startInnings", "Cannot start innings in current match state")
  ELSE LET inningsNumber == IF status = TOSS THEN 1 ELSE 2
           battingTeamId == determineBattingTeam(inningsNumber)
           bowlingTeamId == IF battingTeamId = TeamA THEN TeamB ELSE TeamA
           fresh == NewInnings(inningsNumber, battingTeamId, bowlingTeamId, dto)
           inn == IF inningsNumber = 2 /\ 1 \in DOMAIN innings
                  THEN [fresh EXCEPT
                          !.target = Some(innings[1].totalRuns),
                          !.requiredRuns = Some(innings[1].totalRuns),
                          !.remainingBalls = Some(config.oversPerInnings * 6)]
                  ELSE fresh
       IN /\ innings' = MapSet(innings, inningsNumber, inn)
          /\ currentInnings' = inningsNumber
          /\ status' = ACTIVE
          /\ emitted' = <<Emit("innings.started", Undefined)>>
          /\ reply' = Reply("startInnings", OK)
          /\ UNCHANGED <<config, tossWinner, tossDecision, result, winningTeam, winMargin,
                         events, undoStack, eventStore>>

startInnings(dto) ==
  IF status # TOSS /\ status # INNINGS_BREAK
  THEN Throws("startInnings", "Cannot start innings in current match state")
  ELSE LET inningsNumber == IF status = TOSS THEN 1 ELSE 2
           battingTeamId == determineBattingTeam(inningsNumber)
           bowlingTeamId == IF battingTeamId = TeamA THEN TeamB ELSE TeamA
           fresh == NewInnings(inningsNumber, battingTeamId, bowlingTeamId, dto)
           inn == IF inningsNumber = 2 /\ 1 \in DOMAIN innings
                  THEN [fresh EXCEPT
                          !.target = Some(innings[1].totalRuns + 1),
                          !.requiredRuns = Some(innings[1].totalRuns + 1),
                          !.remainingBalls = Some(config.oversPerInnings * 6)]
                  ELSE fresh
       IN /\ innings' = MapSet(innings, inningsNumber, inn)
          /\ currentInnings' = inningsNumber
          /\ status' = ACTIVE
          /\ emitted' = <<Emit("innings.started", Undefined)>>
          /\ reply' = Reply("startInnings", OK)
          /\ UNCHANGED <<config, tossWinner, tossDecision, result, winningTeam, winMargin,
                         events, undoStack, eventStore>>

\* ---------------------------------------------------------------- processBall: validation

getCurrentInnings == innings[currentInnings]
HasCurrentInnings == currentInnings \in DOMAIN innings

\* validateBallEvent without the check of the bowler's maximum overs.
validateBallEventNoCap(inn, dto) ==
  IF status # ACTIVE THEN "Match is not active"
  ELSE IF inn.status # IN_PROGRESS THEN "Innings is not in progress"
  ELSE IF dto.batsmanOnStrike # inn.batsmanOnStrike THEN "Invalid batsman on strike"
  ELSE IF dto.bowler # inn.currentBowler THEN "Invalid bowler"
  ELSE IF dto.runsScored > 6 /\ IsFalsy(dto.extras.type) THEN "Invalid runs scored"
  ELSE OK

\* The message of the exception validateBallEvent throws, OK when it returns.
\* validateBallEvent allowing one over beyond the bowler's maximum.
validateBallEventCapOffByOne(inn, dto) ==
  IF status # ACTIVE THEN "Match is not active"
  ELSE IF inn.status # IN_PROGRESS THEN "Innings is not in progress"
  ELSE IF dto.batsmanOnStrike # inn.batsmanOnStrike THEN "Invalid batsman on strike"
  ELSE IF dto.bowler # inn.currentBowler THEN "Invalid bowler"
  ELSE IF dto.bowler \in DOMAIN inn.bowlerStats
          /\ inn.bowlerStats[dto.bowler].overs > config.maxOversPerBowler
       THEN "Bowler has completed maximum overs"
  ELSE IF dto.runsScored > 6 /\ IsFalsy(dto.extras.type) THEN "Invalid runs scored"
  ELSE OK

validateBallEvent(inn, dto) ==
  IF status # ACTIVE THEN "Match is not active"
  ELSE IF inn.status # IN_PROGRESS THEN "Innings is not in progress"
  ELSE IF dto.batsmanOnStrike # inn.batsmanOnStrike THEN "Invalid batsman on strike"
  ELSE IF dto.bowler # inn.currentBowler THEN "Invalid bowler"
  ELSE IF dto.bowler \in DOMAIN inn.bowlerStats
          /\ inn.bowlerStats[dto.bowler].overs >= config.maxOversPerBowler
       THEN "Bowler has completed maximum overs"
  ELSE IF dto.runsScored > 6 /\ IsFalsy(dto.extras.type) THEN "Invalid runs scored"
  ELSE OK

\* ---------------------------------------------------------------- processBall: the event

\* The index of the active partnership (partnerships.find(p => p.isActive)), 0 if none.
ActivePartnership(inn) ==
  FirstIndex({i \in 1..Len(inn.partnerships) : inn.partnerships[i].isActive})

createBallEvent(inn, dto, id) ==
  LET isDotBall == dto.runsScored = 0 /\ dto.extras.type = NONE /\ ~dto.wicket.isWicket
      isFreeHit == /\ events # <<>>
                   /\ eventStore[events[Len(events)]].payload.extras.type = NO_BALL
                   /\ config.freeHitOnNoBall
      p == ActivePartnership(inn)
  IN [id |-> id,
      period |-> [innings |-> inn.inningsNumber, over |-> inn.overs,
                  ball |-> inn.balls + 1, legalBallsInOver |-> inn.balls],
      actors |-> [batsmanOnStrike |-> dto.batsmanOnStrike,
                  batsmanNonStrike |-> dto.batsmanNonStrike,
                  bowler |-> dto.bowler,
                  fielder |-> dto.wicket.fielder],
      context |-> [totalScore |-> inn.totalRuns,
                   wicketsFallen |-> inn.wickets,
                   currentRunRate |-> inn.runRate,
                   requiredRunRate |-> inn.requiredRunRate,
                   target |-> inn.target,
                   partnershipRuns |-> IF p = 0 THEN 0 ELSE inn.partnerships[p].runs,
                   partnershipBalls |-> IF p = 0 THEN 0 ELSE inn.partnerships[p].balls,
                   isPowerplay |-> isPowerplayOver(inn.overs, config),
                   isFreeHit |-> isFreeHit],
      payload |-> [runsScored |-> dto.runsScored,
                   isBoundary |-> dto.isBoundary,
                   isSix |-> dto.isSix,
                   isDotBall |-> isDotBall,
                   extras |-> dto.extras,
                   wicket |-> dto.wicket,
                   isFreeHit |-> isFreeHit],
      isDeleted |-> FALSE]

captureState(inn) ==
  [batsmanRuns |-> IF inn.batsmanOnStrike \in DOMAIN inn.batsmanStats
                   THEN inn.batsmanStats[inn.batsmanOnStrike].runs ELSE 0,
   bowlerWickets |-> IF inn.currentBowler \in DOMAIN inn.bowlerStats
                     THEN inn.bowlerStats[inn.currentBowler].wickets ELSE 0,
   totalScore |-> inn.totalRuns,
   wickets |-> inn.wickets]

\* ---------------------------------------------------------------- processBall: application

updateExtras(ex, extras) ==
  LET t == [ex EXCEPT !.total = @ + extras.runs]
  IN CASE extras.type = WIDE -> [t EXCEPT !.wides = @ + extras.runs]
       [] extras.type = NO_BALL -> [t EXCEPT !.noBalls = @ + extras.runs]
       [] extras.type = BYE -> [t EXCEPT !.byes = @ + extras.runs]
       [] extras.type = LEG_BYE -> [t EXCEPT !.legByes = @ + extras.runs]
       [] extras.type = PENALTY -> [t EXCEPT !.penalties = @ + extras.runs]
       [] OTHER -> t

\* overEvents: the ids of one per-over list.
isMaidenOver(overEvents, store) ==
  \A i \in 1..Len(overEvents) :
    LET e == store[overEvents[i]]
    IN /\ e.payload.runsScored = 0
       /\ e.payload.extras.type # WIDE
       /\ e.payload.extras.type # NO_BALL

\* The batsman-statistics update of applyBallToInnings.
UpdateBatsmanStats(b, payload, isLegal) ==
  LET runs == IF payload.extras.type # BYE /\ payload.extras.type # LEG_BYE
              THEN b.runs + payload.runsScored ELSE b.runs
      faced == IF isLegal \/ payload.extras.type = NO_BALL
               THEN b.ballsFaced + 1 ELSE b.ballsFaced
  IN [b EXCEPT !.runs = runs,
               !.ballsFaced = faced,
               !.fours = IF payload.isBoundary /\ ~payload.isSix THEN @ + 1 ELSE @,
               !.sixes = IF payload.isSix THEN @ + 1 ELSE @,
               !.strikeRate = IF faced > 0 THEN Rat(runs * 100, faced) ELSE ZeroRate]

\* The bowler-statistics update of applyBallToInnings (maidens come later).
\* UpdateBowlerStats charging the runs of every kind of extra to the bowler.
UpdateBowlerStatsAllExtras(w, payload, isLegal) ==
  LET rolled == isLegal /\ w.balls + 1 = BallsPerOver
      overs == IF rolled THEN w.overs + 1 ELSE w.overs
      balls == IF ~isLegal THEN w.balls ELSE IF rolled THEN 0 ELSE w.balls + 1
      conceded == w.runsConceded
                  + (IF payload.extras.type # BYE /\ payload.extras.type # LEG_BYE
                     THEN payload.runsScored ELSE 0)
                  + payload.extras.runs
  IN [w EXCEPT !.overs = overs,
               !.balls = balls,
               !.runsConceded = conceded,
               !.wides = IF payload.extras.type = WIDE THEN @ + 1 ELSE @,
               !.noBalls = IF payload.extras.type = NO_BALL THEN @ + 1 ELSE @,
               !.dotBalls = IF payload.isDotBall /\ isLegal THEN @ + 1 ELSE @,
               !.economyRate = IF overs * 6 + balls > 0
                               THEN Rat(conceded * 6, overs * 6 + balls) ELSE ZeroRate]

UpdateBowlerStats(w, payload, isLegal) ==
  LET rolled == isLegal /\ w.balls + 1 = BallsPerOver
      overs == IF rolled THEN w.overs + 1 ELSE w.overs
      balls == IF ~isLegal THEN w.balls ELSE IF rolled THEN 0 ELSE w.balls + 1
      conceded == w.runsConceded
                  + (IF payload.extras.type # BYE /\ payload.extras.type # LEG_BYE
                     THEN payload.runsScored ELSE 0)
                  + (IF payload.extras.type \in {WIDE, NO_BALL}
                     THEN payload.extras.runs ELSE 0)
  IN [w EXCEPT !.overs = overs,
               !.balls = balls,
               !.runsConceded = conceded,
               !.wides = IF payload.extras.type = WIDE THEN @ + 1 ELSE @,
               !.noBalls = IF payload.extras.type = NO_BALL THEN @ + 1 ELSE @,
               !.dotBalls = IF payload.isDotBall /\ isLegal THEN @ + 1 ELSE @,
               !.economyRate = IF overs * 6 + balls > 0
                               THEN Rat(conceded * 6, overs * 6 + balls) ELSE ZeroRate]

\* The steps of handleWicket, each on the innings the step before left.
DismissBatsman(inn, event, dismissedPlayerId) ==
  IF dismissedPlayerId \in DOMAIN inn.batsmanStats
  THEN [inn EXCEPT !.batsmanStats[dismissedPlayerId] =
          [@ EXCEPT !.isOut = TRUE,
                    !.dismissalType = event.payload.wicket.type,
                    !.dismissedBy = event.actors.bowler,
                    !.fielder = event.payload.wicket.fielder]]
  ELSE inn

CreditBowler(inn, event) ==
  IF isWicketCreditedToBowler(event.payload.wicket.type)
     /\ event.actors.bowler \in DOMAIN inn.bowlerStats
  THEN [inn EXCEPT !.bowlerStats[event.actors.bowler].wickets = @ + 1]
  ELSE inn

RecordFallOfWicket(inn, event, dismissedPlayerId) ==
  [inn EXCEPT !.fallOfWickets = Append(@,
     [wicketNumber |-> inn.wickets, score |-> inn.totalRuns,
      overs |-> inn.overs, balls |-> inn.balls,
      dismissedPlayer |-> dismissedPlayerId,
      dismissalType |-> event.payload.wicket.type])]

EndPartnership(inn, p) ==
  IF p # 0
  THEN [inn EXCEPT !.partnerships[p] =
          [@ EXCEPT !.isActive = FALSE, !.endScore = Some(inn.totalRuns)]]
  ELSE inn

handleWicket(inn, event) ==
  LET dismissedPlayerId == IF IsFalsy(event.payload.wicket.dismissedPlayer)
                           THEN event.actors.batsmanOnStrike
                           ELSE event.payload.wicket.dismissedPlayer
      Broken(w) == EndPartnership(w, ActivePartnership(w))
  IN Broken(RecordFallOfWicket(
       CreditBowler(
         DismissBatsman([inn EXCEPT !.wickets = @ + 1], event, dismissedPlayerId),
         event),
       event, dismissedPlayerId))

\* Runs the batsmen ran, as handleStrikeRotation counts them.
StrikeRuns(payload) ==
  payload.runsScored
  + (IF payload.extras.type = BYE \/ payload.extras.type = LEG_BYE
     THEN payload.extras.runs ELSE 0)

\* handleStrikeRotation that forgets the change of ends at the end of an over.
handleStrikeRotationOddOnly(inn, event, cfg) ==
  IF StrikeRuns(event.payload) % 2 = 1
  THEN [inn EXCEPT !.batsmanOnStrike = inn.batsmanNonStrike,
                   !.batsmanNonStrike = inn.batsmanOnStrike]
  ELSE inn

handleStrikeRotation(inn, event, cfg) ==
  LET isLegal == isLegalDelivery(event.payload.extras.type, cfg)
      shouldSwap == StrikeRuns(event.payload) % 2 = 1
      isEndOfOver == isLegal /\ inn.balls = 0 /\ inn.overs > 0
  IN IF shouldSwap # isEndOfOver /\ (shouldSwap \/ isEndOfOver)
     THEN [inn EXCEPT !.batsmanOnStrike = inn.batsmanNonStrike,
                      !.batsmanNonStrike = inn.batsmanOnStrike]
     ELSE inn

\* The runs a delivery adds to the total.
TotalRuns(payload) ==
  payload.runsScored + (IF payload.extras.type # NONE THEN payload.extras.runs ELSE 0)

\* The steps of applyBallToInnings, each on the innings the step before left.
AddRuns(inn, payload) ==
  [inn EXCEPT !.extras = IF payload.extras.type # NONE
                         THEN updateExtras(@, payload.extras) ELSE @,
              !.totalRuns = @ + TotalRuns(payload)]

AddToBatsman(inn, event, isLegal) ==
  IF event.actors.batsmanOnStrike \in DOMAIN inn.batsmanStats
  THEN [inn EXCEPT !.batsmanStats[event.actors.batsmanOnStrike] =
          UpdateBatsmanStats(@, event.payload, isLegal)]
  ELSE inn

AddToBowler(inn, event, isLegal) ==
  IF event.actors.bowler \in DOMAIN inn.bowlerStats
  THEN [inn EXCEPT !.bowlerStats[event.actors.bowler] =
          UpdateBowlerStats(@, event.payload, isLegal)]
  ELSE inn

\* CountBall that counts every delivery, wides and no-balls too.
CountBallEveryDelivery(inn, isLegal) ==
  IF inn.balls + 1 = BallsPerOver
  THEN [inn EXCEPT !.overs = @ + 1, !.balls = 0, !.overHistory = Append(@, <<>>)]
  ELSE [inn EXCEPT !.balls = @ + 1]

CountBall(inn, isLegal) ==
  IF ~isLegal THEN inn
  ELSE IF inn.balls + 1 = BallsPerOver
       THEN [inn EXCEPT !.overs = @ + 1, !.balls = 0, !.overHistory = Append(@, <<>>)]
       ELSE [inn EXCEPT !.balls = @ + 1]

\* The maiden check made when the over count has just advanced: inn is the
\* innings after CountBall, before the event is put in a per-over list.
IsMaidenCredited(inn, before, event, isLegal, store) ==
  /\ isLegal
  /\ before.balls + 1 = BallsPerOver
  /\ event.actors.bowler \in DOMAIN inn.bowlerStats
  /\ isMaidenOver(inn.overHistory[Len(inn.overHistory) - 1], store)

CreditMaiden(inn, event, isMaiden) ==
  IF isMaiden
  THEN [inn EXCEPT !.bowlerStats[event.actors.bowler].maidens = @ + 1]
  ELSE inn

PushToOver(inn, event) ==
  [inn EXCEPT !.overHistory[Len(inn.overHistory)] = Append(@, event.id)]

AddToPartnership(inn, p, payload, isLegal) ==
  IF p # 0
  THEN [inn EXCEPT !.partnerships[p] =
          [@ EXCEPT !.runs = @ + TotalRuns(payload),
                    !.balls = IF isLegal THEN @ + 1 ELSE @]]
  ELSE inn

UpdateRunRate(inn) ==
  [inn EXCEPT !.runRate = IF inn.overs * 6 + inn.balls > 0
                          THEN Rat(inn.totalRuns * 6, inn.overs * 6 + inn.balls)
                          ELSE ZeroRate]

\* UpdateChase counting the completed overs only.
UpdateChaseWholeOvers(inn, cfg) ==
  LET requiredRuns == Val(inn.target) - inn.totalRuns
      remainingBalls == cfg.oversPerInnings * 6 - inn.overs * 6
  IN IF IsSome(inn.target) /\ Val(inn.target) # 0
     THEN [inn EXCEPT !.requiredRuns = Some(requiredRuns),
                      !.remainingBalls = Some(remainingBalls),
                      !.requiredRunRate = IF remainingBalls > 0
                                          THEN Some(Rat(requiredRuns * 6, remainingBalls))
                                          ELSE @]
     ELSE inn

UpdateChase(inn, cfg) ==
  LET requiredRuns == Val(inn.target) - inn.totalRuns
      remainingBalls == cfg.oversPerInnings * 6 - (inn.overs * 6 + inn.balls)
  IN IF IsSome(inn.target) /\ Val(inn.target) # 0
     THEN [inn EXCEPT !.requiredRuns = Some(requiredRuns),
                      !.remainingBalls = Some(remainingBalls),
                      !.requiredRunRate = IF remainingBalls > 0
                                          THEN Some(Rat(requiredRuns * 6, remainingBalls))
                                          ELSE @]
     ELSE inn

\* The innings after applyBallToInnings, the isPowerplay flag it stamps on the
\* event, and what it emits. store: the events before this one.
applyBallToInnings(inn, event, cfg, store) ==
  LET payload == event.payload
      isLegal == isLegalDelivery(payload.extras.type, cfg)
      Counted(before) == CountBall(before, isLegal)
      Partnered(i) == AddToPartnership(i, ActivePartnership(i), payload, isLegal)
      Out(i) == IF payload.wicket.isWicket THEN handleWicket(i, event) ELSE i
      Result(i, isMaiden) ==
        [innings |-> i,
         isPowerplay |-> isPowerplayOver(i.overs, cfg),
         emitted |-> (IF isMaiden THEN <<Emit("commentary.trigger", "maiden_over")>>
                      ELSE <<>>)
                     \o (IF payload.wicket.isWicket
                         THEN <<Emit("commentary.trigger", "wicket")>> ELSE <<>>)]
      Rest(i, isMaiden) ==
        Result(UpdateChase(UpdateRunRate(handleStrikeRotation(
                 Out(Partnered(PushToOver(CreditMaiden(i, event, isMaiden), event))),
                 event, cfg)), cfg),
               isMaiden)
      FromCount(before, counted) ==
        Rest(counted, IsMaidenCredited(counted, before, event, isLegal, store))
      FromStats(before) == FromCount(before, Counted(before))
  IN FromStats(AddToBowler(AddToBatsman(AddRuns(inn, payload), event, isLegal),
                           event, isLegal))

\* ---------------------------------------------------------------- innings and match completion

\* isInningsComplete that does not look at the wickets.
\* isInningsComplete without the test of the target.
isInningsCompleteIgnoringTarget(inn, cfg) ==
  \/ inn.wickets >= cfg.playersPerSide - 1
  \/ inn.overs >= cfg.oversPerInnings

isInningsCompleteIgnoringWickets(inn, cfg) ==
  \/ inn.overs >= cfg.oversPerInnings
  \/ (IsSome(inn.target) /\ Val(inn.target) # 0 /\ inn.totalRuns >= Val(inn.target))

isInningsComplete(inn, cfg) ==
  \/ inn.wickets >= cfg.playersPerSide - 1
  \/ inn.overs >= cfg.oversPerInnings
  \/ (IsSome(inn.target) /\ Val(inn.target) # 0 /\ inn.totalRuns >= Val(inn.target))

\* What endMatch sets on the match, from the two innings.
\* endMatch giving equal totals to the team batting second.
endMatchTieToSecond(innings1, innings2, cfg) ==
  IF innings2.totalRuns >= innings1.totalRuns
  THEN [result |-> IF innings2.battingTeamId = TeamA THEN "team_a_won" ELSE "team_b_won",
        winningTeam |-> innings2.battingTeamId,
        winMargin |-> [n |-> cfg.playersPerSide - 1 - innings2.wickets, unit |-> "wickets"]]
  ELSE [result |-> IF innings1.battingTeamId = TeamA THEN "team_a_won" ELSE "team_b_won",
        winningTeam |-> innings1.battingTeamId,
        winMargin |-> [n |-> innings1.totalRuns - innings2.totalRuns, unit |-> "runs"]]

endMatch(innings1, innings2, cfg) ==
  IF innings2.totalRuns > innings1.totalRuns
  THEN [result |-> IF innings2.battingTeamId = TeamA THEN "team_a_won" ELSE "team_b_won",
        winningTeam |-> innings2.battingTeamId,
        winMargin |-> [n |-> cfg.playersPerSide - 1 - innings2.wickets, unit |-> "wickets"]]
  ELSE IF innings1.totalRuns > innings2.totalRuns
  THEN [result |-> IF innings1.battingTeamId = TeamA THEN "team_a_won" ELSE "team_b_won",
        winningTeam |-> innings1.battingTeamId,
        winMargin |-> [n |-> innings1.totalRuns - innings2.totalRuns, unit |-> "runs"]]
  ELSE [result |-> "tie", winningTeam |-> winningTeam, winMargin |-> winMargin]

\* endInnings announcing the end of the second innings as well.
endInningsNotifiesBoth(inn, cfg) ==
  LET done == [inn EXCEPT !.status = INNINGS_COMPLETED]
  IN IF inn.inningsNumber = 1
     THEN [innings |-> done, status |-> INNINGS_BREAK,
           result |-> result, winningTeam |-> winningTeam, winMargin |-> winMargin,
           emitted |-> <<Emit("innings.ended", Undefined),
                         Emit("commentary.trigger", "innings_end")>>]
     ELSE LET m == endMatch(innings[1], done, cfg)
          IN [innings |-> done, status |-> COMPLETED,
              result |-> m.result, winningTeam |-> m.winningTeam, winMargin |-> m.winMargin,
              emitted |-> <<Emit("innings.ended", Undefined),
                            Emit("match.ended", Undefined),
                            Emit("commentary.trigger", "match_won")>>]

\* endInnings on the current innings inn (already updated by the delivery):
\* the innings, the match fields and the notifications it leaves.
endInnings(inn, cfg) ==
  LET done == [inn EXCEPT !.status = INNINGS_COMPLETED]
  IN IF inn.inningsNumber = 1
     THEN [innings |-> done, status |-> INNINGS_BREAK,
           result |-> result, winningTeam |-> winningTeam, winMargin |-> winMargin,
           emitted |-> <<Emit("innings.ended", Undefined),
                         Emit("commentary.trigger", "innings_end")>>]
     ELSE LET m == endMatch(innings[1], done, cfg)
          IN [innings |-> done, status |-> COMPLETED,
              result |-> m.result, winningTeam |-> m.winningTeam, winMargin |-> m.winMargin,
              emitted |-> <<Emit("match.ended", Undefined),
                            Emit("commentary.trigger", "match_won")>>]

\* ---------------------------------------------------------------- token rewards

\* The last n elements of a sequence (Array.prototype.slice(-n)).
LastN(s, n) == IF Len(s) <= n THEN s ELSE SubSeq(s, Len(s) - n + 1, Len(s))

\* The indices in evs, from i on and ascending, of the wickets of bowler.
RECURSIVE BowlerWickets(_, _, _)
BowlerWickets(evs, bowler, i) ==
  IF i > Len(evs) THEN <<>>
  ELSE (IF evs[i].payload.wicket.isWicket /\ evs[i].actors.bowler = bowler
        THEN <<i>> ELSE <<>>)
       \o BowlerWickets(evs, bowler, i + 1)

\* evs: the events of match.events, the current one included.
\* isHatTrick without the search for legal deliveries between the wickets.
isHatTrickAnyThreeWickets(evs, currentEvent) ==
  Len(evs) >= 2 /\ Len(BowlerWickets(evs, currentEvent.actors.bowler, 1)) >= 3

isHatTrick(evs, currentEvent) ==
  LET lastThreeWickets == LastN(BowlerWickets(evs, currentEvent.actors.bowler, 1), 3)
  IN IF Len(evs) < 2 THEN FALSE
     ELSE IF Len(lastThreeWickets) < 3 THEN FALSE
     ELSE \A i \in 2..Len(lastThreeWickets) :
            \A j \in (lastThreeWickets[i - 1] + 1)..(lastThreeWickets[i] - 1) :
              ~(/\ evs[j].actors.bowler = currentEvent.actors.bowler
                /\ evs[j].payload.extras.type # WIDE
                /\ evs[j].payload.extras.type # NO_BALL)

Reward(tier, playerId) == [tier |-> tier, playerId |-> playerId]

\* The rewards checkTokenRewards returns and what it emits.
checkTokenRewards(inn, event, previousState, evs) ==
  LET striker == event.actors.batsmanOnStrike
      bowler == event.actors.bowler
      hasBatsman == striker \in DOMAIN inn.batsmanStats
      b == inn.batsmanStats[striker]
      fifty == hasBatsman /\ previousState.batsmanRuns < 50 /\ b.runs >= 50
      hundred == /\ hasBatsman
                 /\ previousState.batsmanRuns < 100
                 /\ b.runs >= 100
                 /\ b.strikeRate.num > 150 * b.strikeRate.den
      hasBowler == bowler \in DOMAIN inn.bowlerStats /\ event.payload.wicket.isWicket
      fiveFor == /\ hasBowler
                 /\ previousState.bowlerWickets = 4
                 /\ inn.bowlerStats[bowler].wickets >= 5
      hatTrick == hasBowler /\ isHatTrick(evs, event)
      rewards == (IF fifty THEN <<Reward("nifty_fifty", striker)>> ELSE <<>>)
                 \o (IF hundred THEN <<Reward("gayle_storm", striker)>> ELSE <<>>)
                 \o (IF fiveFor THEN <<Reward("five_wicket_haul", bowler)>> ELSE <<>>)
                 \o (IF hatTrick THEN <<Reward("hat_trick", bowler)>> ELSE <<>>)
  IN [rewards |-> rewards,
      emitted |-> (IF fifty THEN <<Emit("commentary.trigger", "fifty")>> ELSE <<>>)
                  \o (IF hundred THEN <<Emit("commentary.trigger", "hundred")>> ELSE <<>>)
                  \o (IF fiveFor THEN <<Emit("commentary.trigger", "five_wicket_haul")>>
                      ELSE <<>>)
                  \o (IF hatTrick THEN <<Emit("commentary.trigger", "hat_trick")>> ELSE <<>>)
                  \o (IF rewards # <<>> THEN <<Emit("token.rewards", Undefined)>> ELSE <<>>)]

\* ---------------------------------------------------------------- commentary triggers

\* overEvents: the event records of one per-over list.
RECURSIVE countConsecutiveDots(_)
countConsecutiveDots(overEvents) ==
  IF overEvents = <<>> THEN 0
  ELSE IF overEvents[Len(overEvents)].payload.isDotBall
       THEN 1 + countConsecutiveDots(SubSeq(overEvents, 1, Len(overEvents) - 1))
       ELSE 0

\* What checkCommentaryTriggers emits. store: the events, the current one included.
checkCommentaryTriggers(inn, event, cfg, store) ==
  LET ids == inn.overHistory[Len(inn.overHistory)]
      currentOver == [i \in 1..Len(ids) |-> store[ids[i]]]
  IN (IF event.payload.isSix THEN <<Emit("commentary.trigger", "six")>>
      ELSE IF event.payload.isBoundary THEN <<Emit("commentary.trigger", "boundary")>>
      ELSE <<>>)
     \o (IF isPowerplayOver(inn.overs - 1, cfg) /\ ~isPowerplayOver(inn.overs, cfg)
         THEN <<Emit("commentary.trigger", "powerplay_end")>> ELSE <<>>)
     \o (IF countConsecutiveDots(currentOver) >= 3
         THEN <<Emit("commentary.trigger", "dot_ball_pressure")>> ELSE <<>>)

\* ---------------------------------------------------------------- processBall

\* The commit of a delivery: event is the stored event, applied what
\* applyBallToInnings returned, ended what endInnings would leave.
CommitBall(event, previousState, applied, complete, ended) ==
  LET After(after, store) ==
        LET evs == [i \in 1..(Len(events) + 1) |-> store[Append(events, event.id)[i]]]
            Rewarded(rewarded) ==
              /\ emitted' = applied.emitted
                            \o (IF complete THEN ended.emitted ELSE <<>>)
                            \o rewarded.emitted
                            \o <<Emit("ball.bowled", Undefined)>>
                            \o checkCommentaryTriggers(after, event, config, store)
              /\ reply' = [Reply("processBall", OK) EXCEPT !.rewards = rewarded.rewards]
        IN /\ innings' = [innings EXCEPT ![currentInnings] = after]
           /\ eventStore' = store
           /\ Rewarded(checkTokenRewards(after, event, previousState, evs))
  IN /\ After(IF complete THEN ended.innings ELSE applied.innings,
              Append(eventStore, event))
     /\ status' = IF complete THEN ended.status ELSE status
     /\ result' = IF complete THEN ended.result ELSE result
     /\ winningTeam' = IF complete THEN ended.winningTeam ELSE winningTeam
     /\ winMargin' = IF complete THEN ended.winMargin ELSE winMargin
     /\ events' = Append(events, event.id)
     /\ undoStack' = Append(undoStack, event.id)
     /\ UNCHANGED <<config, tossWinner, tossDecision, currentInnings>>

processBall(dto) ==
  IF ~HasCurrentInnings THEN Throws("processBall", "No active innings")
  ELSE IF validateBallEvent(getCurrentInnings, dto) # OK
  THEN Throws("processBall", validateBallEvent(getCurrentInnings, dto))
  ELSE
    LET Applied(created, previousState, applied) ==
          CommitBall([created EXCEPT !.context.isPowerplay = applied.isPowerplay],
                     previousState, applied,
                     isInningsComplete(applied.innings, config),
                     endInnings(applied.innings, config))
        Created(created, previousState) ==
          Applied(created, previousState,
                  applyBallToInnings(getCurrentInnings, created, config, eventStore))
    IN Created(createBallEvent(getCurrentInnings, dto, Len(eventStore) + 1),
               captureState(getCurrentInnings))

\* ---------------------------------------------------------------- processBall: a listener throws

\* The places where processBall hands a notification to eventEmitter.emit,
\* which runs the listeners before it returns: the maiden trigger inside the
\* ball count, the wicket trigger at the end of handleWicket, the notifications
\* of endInnings and endMatch, and ball.bowled, sent after the event is stored.
EmitPoints == {"maiden", "wicket", "innings_end", "ball_bowled"}

\* The innings when the maiden trigger is emitted: the runs, the statistics
\* and the ball count are applied, the maiden is credited.
AppliedToMaidenEmit(inn, event, cfg) ==
  CreditMaiden(
    CountBall(AddToBowler(AddToBatsman(AddRuns(inn, event.payload), event,
                                       isLegalDelivery(event.payload.extras.type, cfg)),
                          event, isLegalDelivery(event.payload.extras.type, cfg)),
              isLegalDelivery(event.payload.extras.type, cfg)),
    event, TRUE)

\* The delivery completes an over that isMaidenOver accepts.
EmitsMaiden(inn, event, cfg, store) ==
  IsMaidenCredited(AppliedToMaidenEmit(inn, event, cfg), inn, event,
                   isLegalDelivery(event.payload.extras.type, cfg), store)

\* The innings when the wicket trigger is emitted: everything up to the end
\* of handleWicket is applied.
AppliedToWicketEmit(inn, event, cfg, store) ==
  LET isLegal == isLegalDelivery(event.payload.extras.type, cfg)
      Partnered(i) == AddToPartnership(i, ActivePartnership(i), event.payload, isLegal)
      Counted(i) == CreditMaiden(i, event, IsMaidenCredited(i, inn, event, isLegal, store))
  IN handleWicket(
       Partnered(PushToOver(
         Counted(CountBall(AddToBowler(AddToBatsman(AddRuns(inn, event.payload),
                                                    event, isLegal),
                                       event, isLegal),
                           isLegal)),
         event)),
       event)

\* processBall when the listener called at the emit point throws: the
\* exception leaves processBall with what was assigned until then.
ListenerThrows(created, point, applied) ==
  LET complete == isInningsComplete(applied.innings, config)
      ended == endInnings(applied.innings, config)
      event == [created EXCEPT !.context.isPowerplay = applied.isPowerplay]
      stored == point = "ball_bowled"
      atEnd == point \in {"innings_end", "ball_bowled"}
      evs == [i \in 1..(Len(events) + 1) |->
                Append(eventStore, event)[Append(events, event.id)[i]]]
      maiden == <<Emit("commentary.trigger", "maiden_over")>>
  IN /\ CASE point = "maiden" ->
               EmitsMaiden(getCurrentInnings, created, config, eventStore)
          [] point = "wicket" -> created.payload.wicket.isWicket
          [] point = "innings_end" -> complete
          [] OTHER -> TRUE
     /\ innings' = [innings EXCEPT ![currentInnings] =
          CASE point = "maiden" -> AppliedToMaidenEmit(getCurrentInnings, created, config)
            [] point = "wicket" ->
                 AppliedToWicketEmit(getCurrentInnings, created, config, eventStore)
            [] OTHER -> IF complete THEN ended.innings ELSE applied.innings]
     /\ eventStore' = IF point = "maiden" THEN eventStore
                      ELSE Append(eventStore, IF atEnd THEN event ELSE created)
     /\ status' = IF atEnd /\ complete THEN ended.status ELSE status
     /\ result' = IF atEnd /\ complete THEN ended.result ELSE result
     /\ winningTeam' = IF atEnd /\ complete THEN ended.winningTeam ELSE winningTeam
     /\ winMargin' = IF atEnd /\ complete THEN ended.winMargin ELSE winMargin
     /\ events' = IF stored THEN Append(events, created.id) ELSE events
     /\ undoStack' = IF stored THEN Append(undoStack, created.id) ELSE undoStack
     /\ emitted' =
          CASE point = "maiden" -> maiden
            [] point = "wicket" ->
                 (IF EmitsMaiden(getCurrentInnings, created, config, eventStore)
                  THEN maiden ELSE <<>>)
                 \o <<Emit("commentary.trigger", "wicket")>>
            [] point = "innings_end" -> applied.emitted \o <<ended.emitted[1]>>
            [] OTHER ->
                 applied.emitted
                 \o (IF complete THEN ended.emitted ELSE <<>>)
                 \o checkTokenRewards(IF complete THEN ended.innings ELSE applied.innings,
                                      event, captureState(getCurrentInnings), evs).emitted
                 \o <<Emit("ball.bowled", Undefined)>>
     /\ reply' = Reply("processBall", "listener threw")
     /\ UNCHANGED <<config, tossWinner, tossDecision, currentInnings>>

processBallListenerThrows(dto, point) ==
  /\ HasCurrentInnings
  /\ validateBallEvent(getCurrentInnings, dto) = OK
  /\ LET Created(created) ==
           ListenerThrows(created, point,
                          applyBallToInnings(getCurrentInnings, created, config, eventStore))
     IN Created(createBallEvent(getCurrentInnings, dto, Len(eventStore) + 1))

\* ---------------------------------------------------------------- getMatchEvents

\* The ids of the events of match.events that are not flagged as deleted.
getMatchEvents ==
  LET Live(id) == ~eventStore[id].isDeleted
  IN SelectSeq(events, Live)

\* ---------------------------------------------------------------- changeBowler

\* changeBowler without the test of the ball counter.
changeBowlerAnyTime(dto) ==
  IF ~HasCurrentInnings THEN Throws("changeBowler", "No active innings")
  ELSE LET inn == getCurrentInnings
       IN IF inn.currentBowler = dto.newBowler
          THEN Throws("changeBowler", "Same bowler cannot bowl consecutive overs")
          ELSE IF dto.newBowler \in DOMAIN inn.bowlerStats
                  /\ inn.bowlerStats[dto.newBowler].overs >= config.maxOversPerBowler
          THEN Throws("changeBowler", "Bowler has completed maximum overs")
          ELSE /\ innings' = [innings EXCEPT ![currentInnings] =
                   [inn EXCEPT !.bowlerStats =
                                 IF dto.newBowler \in DOMAIN inn.bowlerStats THEN @
                                 ELSE MapSet(@, dto.newBowler, createBowlerStats(dto.newBowler)),
                               !.currentBowler = dto.newBowler]]
               /\ emitted' = <<>>
               /\ reply' = Reply("changeBowler", OK)
               /\ UNCHANGED <<config, status, tossWinner, tossDecision, currentInnings,
                              result, winningTeam, winMargin, events, undoStack, eventStore>>

changeBowler(dto) ==
  IF ~HasCurrentInnings THEN Throws("changeBowler", "No active innings")
  ELSE LET inn == getCurrentInnings
       IN IF inn.balls # 0
          THEN Throws("changeBowler", "Bowler can only be changed at end of over")
          ELSE IF inn.currentBowler = dto.newBowler
          THEN Throws("changeBowler", "Same bowler cannot bowl consecutive overs")
          ELSE IF dto.newBowler \in DOMAIN inn.bowlerStats
                  /\ inn.bowlerStats[dto.newBowler].overs >= config.maxOversPerBowler
          THEN Throws("changeBowler", "Bowler has completed maximum overs")
          ELSE /\ innings' = [innings EXCEPT ![currentInnings] =
                   [inn EXCEPT !.bowlerStats =
                                 IF dto.newBowler \in DOMAIN inn.bowlerStats THEN @
                                 ELSE MapSet(@, dto.newBowler, createBowlerStats(dto.newBowler)),
                               !.currentBowler = dto.newBowler]]
               /\ emitted' = <<>>
               /\ reply' = Reply("changeBowler", OK)
               /\ UNCHANGED <<config, status, tossWinner, tossDecision, currentInnings,
                              result, winningTeam, winMargin, events, undoStack, eventStore>>

\* ---------------------------------------------------------------- bringNewBatsman

bringNewBatsman(newBatsmanId, isOnStrike) ==
  IF ~HasCurrentInnings THEN Throws("bringNewBatsman", "No active innings")
  ELSE LET inn == getCurrentInnings
           n1 == IF newBatsmanId \in DOMAIN inn.batsmanStats THEN inn
                 ELSE [inn EXCEPT !.batsmanStats =
                         MapSet(@, newBatsmanId, createBatsmanStats(newBatsmanId))]
           n2 == IF isOnStrike THEN [n1 EXCEPT !.batsmanOnStrike = newBatsmanId]
                 ELSE [n1 EXCEPT !.batsmanNonStrike = newBatsmanId]
           otherBatsman == IF isOnStrike THEN n2.batsmanNonStrike ELSE n2.batsmanOnStrike
       IN /\ innings' = [innings EXCEPT ![currentInnings] =
               [n2 EXCEPT !.partnerships =
                  Append(@, NewPartnership(newBatsmanId, otherBatsman, n2.totalRuns))]]
          /\ emitted' = <<>>
          /\ reply' = Reply("bringNewBatsman", OK)
          /\ UNCHANGED <<config, status, tossWinner, tossDecision, currentInnings,
                         result, winningTeam, winMargin, events, undoStack, eventStore>>

\* ---------------------------------------------------------------- undoLastBall

\* Array.prototype.splice(i, 1)
RemoveAt(s, i) == SubSeq(s, 1, i - 1) \o SubSeq(s, i + 1, Len(s))

\* The match as one value: the fields of MatchState and the undo stack.
Match ==
  [config |-> config, status |-> status, tossWinner |-> tossWinner,
   tossDecision |-> tossDecision, currentInnings |-> currentInnings,
   innings |-> innings, result |-> result, winningTeam |-> winningTeam,
   winMargin |-> winMargin, events |-> events, undoStack |-> undoStack,
   eventStore |-> eventStore]

\* The match becomes m.
Becomes(m) ==
  /\ config' = m.config
  /\ status' = m.status
  /\ tossWinner' = m.tossWinner
  /\ tossDecision' = m.tossDecision
  /\ currentInnings' = m.currentInnings
  /\ innings' = m.innings
  /\ result' = m.result
  /\ winningTeam' = m.winningTeam
  /\ winMargin' = m.winMargin
  /\ events' = m.events
  /\ undoStack' = m.undoStack
  /\ eventStore' = m.eventStore

\* The match undoLastBall leaves of the match m, whose undo stack is not empty.
\* undoLastBallOn removing the oldest event of the log instead of the one
\* popped from the undo stack.
undoLastBallOnOldest(m) ==
  LET lastEvent == m.undoStack[Len(m.undoStack)]
  IN [m EXCEPT !.undoStack = SubSeq(@, 1, Len(@) - 1),
               !.eventStore[lastEvent].isDeleted = TRUE,
               !.events = IF @ # <<>> THEN RemoveAt(@, 1) ELSE @]

undoLastBallOn(m) ==
  LET lastEvent == m.undoStack[Len(m.undoStack)]
      eventIndex == FirstIndex({i \in 1..Len(m.events) : m.events[i] = lastEvent})
  IN [m EXCEPT !.undoStack = SubSeq(@, 1, Len(@) - 1),
               !.eventStore[lastEvent].isDeleted = TRUE,
               !.events = IF eventIndex # 0 THEN RemoveAt(@, eventIndex) ELSE @]

undoLastBall ==
  IF undoStack = <<>> THEN Throws("undoLastBall", "No balls to undo")
  ELSE /\ Becomes(undoLastBallOn(Match))
       /\ emitted' = <<>>
       /\ reply' = Reply("undoLastBall",
                         IF HasCurrentInnings THEN OK ELSE "No active innings")

\* ---------------------------------------------------------------- inputs and bounds

\* Deliveries accepted in a run of Spec.
MaxEvents == 2
\* Deliveries accepted in a run of SpecOver.
MaxOverEvents == 7
\* Deliveries accepted in a run of SpecInnings.
MaxInningsEvents == 12
\* Deliveries undone in a run of SpecInnings.
MaxUndos == 1

Batsmen == {"b1", "b2", "b3"}
Bowlers == {"w1", "w2"}
\* The batsmen bringNewBatsman is called with.
NewBatsmen == {"b3"}

ConfigDtos ==
  { [oversPerInnings |-> 1, playersPerSide |-> 3, powerplayOvers |-> {1},
     maxOversPerBowler |-> 0, wideRedelivery |-> TRUE, noBallRedelivery |-> TRUE,
     freeHitOnNoBall |-> TRUE],
    [oversPerInnings |-> 1, playersPerSide |-> 3, powerplayOvers |-> {},
     maxOversPerBowler |-> 1, wideRedelivery |-> FALSE, noBallRedelivery |-> FALSE,
     freeHitOnNoBall |-> FALSE] }

OverConfigDtos ==
  { [oversPerInnings |-> 2, playersPerSide |-> 3, powerplayOvers |-> {1},
     maxOversPerBowler |-> 0, wideRedelivery |-> TRUE, noBallRedelivery |-> TRUE,
     freeHitOnNoBall |-> TRUE] }

InningsConfigDtos ==
  { [oversPerInnings |-> 1, playersPerSide |-> 2, powerplayOvers |-> {1},
     maxOversPerBowler |-> 0, wideRedelivery |-> TRUE, noBallRedelivery |-> TRUE,
     freeHitOnNoBall |-> TRUE] }

TossInputs == {[tossWinner |-> TeamB, decision |-> "bowl"]}

StartInputs == {[openingBatsman1 |-> "b1", openingBatsman2 |-> "b2", openingBowler |-> "w1"]}

NoExtras == [type |-> NONE, runs |-> 0]
NoWicket == [isWicket |-> FALSE, type |-> Undefined, dismissedPlayer |-> Undefined,
             fielder |-> Undefined]
Wicket(type, dismissedPlayer) ==
  [isWicket |-> TRUE, type |-> type, dismissedPlayer |-> dismissedPlayer,
   fielder |-> Undefined]

\* The scoring part of a CreateBallEventDto.
Shape(runsScored, extras, wicket) ==
  [runsScored |-> runsScored, isBoundary |-> runsScored \in {4, 6},
   isSix |-> runsScored = 6, extras |-> extras, wicket |-> wicket]

BallShapes ==
  {Shape(r, NoExtras, NoWicket) : r \in {0, 1, 4, 7}}
  \cup {Shape(0, [type |-> t, runs |-> 1], NoWicket) : t \in {WIDE, NO_BALL, BYE}}
  \cup {Shape(1, [type |-> NO_BALL, runs |-> 1], NoWicket),
        Shape(0, [type |-> LEG_BYE, runs |-> 2], NoWicket),
        Shape(0, [type |-> PENALTY, runs |-> 5], NoWicket),
        Shape(0, NoExtras, Wicket("bowled", Undefined)),
        Shape(1, NoExtras, Wicket("run_out", "b2"))}

OverBallShapes ==
  {Shape(0, NoExtras, NoWicket),
   Shape(1, NoExtras, NoWicket),
   Shape(0, [type |-> WIDE, runs |-> 1], NoWicket)}

InningsBallShapes ==
  {Shape(1, NoExtras, NoWicket),
   Shape(0, NoExtras, Wicket("bowled", Undefined))}

\* CreateBallEventDto: the innings it names (the match's current one, unless
\* the scorer names another), the actors and the scoring part.
BallDto(striker, nonStriker, bowler, shape) ==
  [innings |-> currentInnings, batsmanOnStrike |-> striker, batsmanNonStrike |-> nonStriker, bowler |-> bowler,
   runsScored |-> shape.runsScored, isBoundary |-> shape.isBoundary,
   isSix |-> shape.isSix, extras |-> shape.extras, wicket |-> shape.wicket]

\* The non-striker the scorer submits: the innings' one (it is not validated).
SubmittedNonStriker ==
  IF HasCurrentInnings THEN getCurrentInnings.batsmanNonStrike ELSE "b2"

BallInputs ==
  {BallDto(s, SubmittedNonStriker, w, sh) : s \in Batsmen, w \in Bowlers, sh \in BallShapes}

\* The scorer of SpecOver may submit a batsman who is not on strike (the
\* non-striker) or a bowler who is not bowling.
OverBallInputs ==
  {BallDto(s, SubmittedNonStriker, w, sh) :
     s \in IF HasCurrentInnings
           THEN {getCurrentInnings.batsmanOnStrike, getCurrentInnings.batsmanNonStrike}
           ELSE {"b1"},
     w \in Bowlers, sh \in OverBallShapes}

\* The scorer of SpecInnings submits the batsman on strike and the current bowler.
InningsBallInputs ==
  {BallDto(getCurrentInnings.batsmanOnStrike, SubmittedNonStriker,
           getCurrentInnings.currentBowler, sh) : sh \in InningsBallShapes}

\* Deliveries undone so far.
Undone == Len(eventStore) - Len(undoStack)

\* The call returned: it threw no exception.
Returned == reply'.error = OK

\* ---------------------------------------------------------------- Spec: any call, few deliveries

Init == InitWith(ConfigDtos)

RecordToss == \E dto \in TossInputs : recordToss(dto)

StartInnings == \E dto \in StartInputs : startInnings(dto)

ProcessBall ==
  /\ Len(eventStore) < MaxEvents
  /\ \E dto \in BallInputs : processBall(dto)

ChangeBowler == \E w \in Bowlers : changeBowler([newBowler |-> w])

BringNewBatsman ==
  \E b \in NewBatsmen, isOnStrike \in BOOLEAN :
    /\ HasCurrentInnings => b \notin DOMAIN getCurrentInnings.batsmanStats
    /\ bringNewBatsman(b, isOnStrike)

UndoLastBall == undoLastBall

Next ==
  \/ RecordToss
  \/ StartInnings
  \/ ProcessBall
  \/ ChangeBowler
  \/ BringNewBatsman
  \/ UndoLastBall

Spec == Init /\ [][Next]_vars

\* ---------------------------------------------------------------- SpecOver: whole overs

InitOver == InitWith(OverConfigDtos)

OverRecordToss == RecordToss /\ Returned

OverStartInnings == StartInnings /\ Returned

OverProcessBall ==
  /\ Len(eventStore) < MaxOverEvents
  /\ \E dto \in OverBallInputs : processBall(dto)

OverChangeBowler == ChangeBowler /\ Returned

NextOver ==
  \/ OverRecordToss
  \/ OverStartInnings
  \/ OverProcessBall
  \/ OverChangeBowler

SpecOver == InitOver /\ [][NextOver]_vars

\* ---------------------------------------------------------------- SpecInnings: whole innings

InitInnings == InitWith(InningsConfigDtos)

InningsRecordToss == RecordToss /\ Returned

InningsStartInnings == StartInnings /\ Returned

InningsProcessBall ==
  /\ Len(eventStore) < MaxInningsEvents
  /\ HasCurrentInnings
  /\ \E dto \in InningsBallInputs : processBall(dto) /\ Returned

InningsChangeBowler == ChangeBowler /\ Returned

\* The next batsman comes in once the partnership is broken.
InningsBringNewBatsman ==
  /\ HasCurrentInnings
  /\ ActivePartnership(getCurrentInnings) = 0
  /\ BringNewBatsman
  /\ Returned

InningsUndoLastBall ==
  /\ Undone < MaxUndos
  /\ undoLastBall
  /\ Returned

NextInnings ==
  \/ InningsRecordToss
  \/ InningsStartInnings
  \/ InningsProcessBall
  \/ InningsChangeBowler
  \/ InningsBringNewBatsman
  \/ InningsUndoLastBall

SpecInnings == InitInnings /\ [][NextInnings]_vars

\* ---------------------------------------------------------------- SpecMatch: the match lifecycle

\* Deliveries accepted in a run of SpecMatch.
MaxMatchEvents == 8

\* The toss and the start of an innings are called in any state of the match;
\* the deliveries are those of SpecInnings.
MatchRecordToss == RecordToss

MatchStartInnings == StartInnings

MatchProcessBall ==
  /\ Len(eventStore) < MaxMatchEvents
  /\ HasCurrentInnings
  /\ \E dto \in InningsBallInputs : processBall(dto) /\ Returned

NextMatch ==
  \/ MatchRecordToss
  \/ MatchStartInnings
  \/ MatchProcessBall

SpecMatch == InitInnings /\ [][NextMatch]_vars

\* ---------------------------------------------------------------- SpecWickets: one bowler's wickets

\* Deliveries accepted in a run of SpecWickets.
MaxWicketsEvents == 6

WicketsConfigDtos ==
  { [oversPerInnings |-> 2, playersPerSide |-> 7, powerplayOvers |-> {},
     maxOversPerBowler |-> 2, wideRedelivery |-> TRUE, noBallRedelivery |-> TRUE,
     freeHitOnNoBall |-> TRUE] }

WicketsBallShapes ==
  {Shape(0, NoExtras, Wicket("bowled", Undefined)),
   Shape(0, NoExtras, Wicket("run_out", Undefined)),
   Shape(0, NoExtras, NoWicket)}

\* The scorer of SpecWickets submits the batsman on strike and the current bowler.
WicketsBallInputs ==
  {BallDto(getCurrentInnings.batsmanOnStrike, SubmittedNonStriker,
           getCurrentInnings.currentBowler, sh) : sh \in WicketsBallShapes}

InitWickets == InitWith(WicketsConfigDtos)

WicketsRecordToss == RecordToss /\ Returned

WicketsStartInnings == StartInnings /\ Returned

WicketsProcessBall ==
  /\ Len(eventStore) < MaxWicketsEvents
  /\ HasCurrentInnings
  /\ \E dto \in WicketsBallInputs : processBall(dto) /\ Returned

NextWickets ==
  \/ WicketsRecordToss
  \/ WicketsStartInnings
  \/ WicketsProcessBall

SpecWickets == InitWickets /\ [][NextWickets]_vars

\* ---------------------------------------------------------------- SpecHatTrick: wickets in a row

\* Deliveries accepted in a run of SpecHatTrick.
MaxHatTrickEvents == 13
\* Wickets and wides together in a run of SpecHatTrick.
MaxHatTrickIncidents == 4

HatTrickConfigDtos ==
  { [oversPerInnings |-> 3, playersPerSide |-> 11, powerplayOvers |-> {},
     maxOversPerBowler |-> 2, wideRedelivery |-> TRUE, noBallRedelivery |-> TRUE,
     freeHitOnNoBall |-> TRUE] }

HatTrickBallShapes ==
  {Shape(0, NoExtras, NoWicket)}
  \cup (IF /\ HasCurrentInnings
           /\ getCurrentInnings.wickets + getCurrentInnings.extras.wides
                < MaxHatTrickIncidents
        THEN {Shape(0, NoExtras, Wicket("bowled", Undefined)),
              Shape(0, [type |-> WIDE, runs |-> 1], NoWicket)}
        ELSE {})

\* The scorer of SpecHatTrick submits the batsman on strike and the current bowler.
HatTrickBallInputs ==
  {BallDto(getCurrentInnings.batsmanOnStrike, SubmittedNonStriker,
           getCurrentInnings.currentBowler, sh) : sh \in HatTrickBallShapes}

InitHatTrick == InitWith(HatTrickConfigDtos)

HatTrickRecordToss == RecordToss /\ Returned

HatTrickStartInnings == StartInnings /\ Returned

HatTrickProcessBall ==
  /\ Len(eventStore) < MaxHatTrickEvents
  /\ HasCurrentInnings
  /\ \E dto \in HatTrickBallInputs : processBall(dto) /\ Returned

HatTrickChangeBowler == ChangeBowler /\ Returned

NextHatTrick ==
  \/ HatTrickRecordToss
  \/ HatTrickStartInnings
  \/ HatTrickProcessBall
  \/ HatTrickChangeBowler

SpecHatTrick == InitHatTrick /\ [][NextHatTrick]_vars

\* ---------------------------------------------------------------- SpecMilestone: one batsman's runs

\* Deliveries accepted in a run of SpecMilestone.
MaxMilestoneEvents == 70
\* Times the deliveries of a run of SpecMilestone change from one shape to another.
MaxShapeChanges == 1

MilestoneConfigDtos ==
  { [oversPerInnings |-> 20, playersPerSide |-> 11, powerplayOvers |-> {},
     maxOversPerBowler |-> 4, wideRedelivery |-> TRUE, noBallRedelivery |-> TRUE,
     freeHitOnNoBall |-> TRUE] }

\* A six hit off a no-ball, a no-ball left alone, six runs taken off a wide.
MilestoneBallShapes ==
  {Shape(6, [type |-> NO_BALL, runs |-> 1], NoWicket),
   Shape(0, [type |-> NO_BALL, runs |-> 1], NoWicket),
   Shape(6, [type |-> WIDE, runs |-> 1], NoWicket)}

\* The scoring part of a stored event, as it was submitted.
ShapeOf(e) == Shape(e.payload.runsScored, e.payload.extras, NoWicket)

ShapeChanges ==
  Cardinality({k \in 2..Len(eventStore) :
                 ShapeOf(eventStore[k]) # ShapeOf(eventStore[k - 1])})

\* The scorer of SpecMilestone submits the batsman on strike and the current
\* bowler, and repeats the last shape once the changes are used up.
MilestoneBallInputs ==
  {BallDto(getCurrentInnings.batsmanOnStrike, SubmittedNonStriker,
           getCurrentInnings.currentBowler, sh) :
     sh \in {x \in MilestoneBallShapes :
               \/ eventStore = <<>>
               \/ ShapeChanges < MaxShapeChanges
               \/ x = ShapeOf(eventStore[Len(eventStore)])}}

InitMilestone == InitWith(MilestoneConfigDtos)

MilestoneRecordToss == RecordToss /\ Returned

MilestoneStartInnings == StartInnings /\ Returned

MilestoneProcessBall ==
  /\ Len(eventStore) < MaxMilestoneEvents
  /\ HasCurrentInnings
  /\ \E dto \in MilestoneBallInputs : processBall(dto) /\ Returned

NextMilestone ==
  \/ MilestoneRecordToss
  \/ MilestoneStartInnings
  \/ MilestoneProcessBall

SpecMilestone == InitMilestone /\ [][NextMilestone]_vars

\* ---------------------------------------------------------------- SpecBowling: who may bowl

\* Deliveries accepted in a run of SpecBowling.
MaxBowlingEvents == 14

BowlingBowlers == {"w1", "w2", "w3"}

BowlingConfigDtos ==
  { [oversPerInnings |-> 3, playersPerSide |-> 3, powerplayOvers |-> {1},
     maxOversPerBowler |-> cap, wideRedelivery |-> TRUE, noBallRedelivery |-> TRUE,
     freeHitOnNoBall |-> TRUE] : cap \in {1, 2} }

BowlingBallShapes == {Shape(0, NoExtras, NoWicket)}

\* The scorer of SpecBowling submits the batsman on strike and any bowler.
BowlingBallInputs ==
  {BallDto(getCurrentInnings.batsmanOnStrike, SubmittedNonStriker, w, sh) :
     w \in BowlingBowlers, sh \in BowlingBallShapes}

InitBowling == InitWith(BowlingConfigDtos)

BowlingRecordToss == RecordToss /\ Returned

BowlingStartInnings == StartInnings /\ Returned

BowlingProcessBall ==
  /\ Len(eventStore) < MaxBowlingEvents
  /\ HasCurrentInnings
  /\ \E dto \in BowlingBallInputs : processBall(dto)

BowlingChangeBowler == \E w \in BowlingBowlers : changeBowler([newBowler |-> w])

NextBowling ==
  \/ BowlingRecordToss
  \/ BowlingStartInnings
  \/ BowlingProcessBall
  \/ BowlingChangeBowler

SpecBowling == InitBowling /\ [][NextBowling]_vars

\* ---------------------------------------------------------------- SpecListeners: notifications that fail

\* Deliveries submitted in a run of SpecListeners.
MaxListenerEvents == 7

ListenerConfigDtos ==
  { [oversPerInnings |-> 1, playersPerSide |-> 3, powerplayOvers |-> {1},
     maxOversPerBowler |-> 1, wideRedelivery |-> TRUE, noBallRedelivery |-> TRUE,
     freeHitOnNoBall |-> TRUE] }

ListenerBallShapes ==
  {Shape(0, NoExtras, NoWicket),
   Shape(1, NoExtras, NoWicket),
   Shape(0, NoExtras, Wicket("bowled", Undefined))}

\* The scorer of SpecListeners submits the batsman on strike and the current bowler.
ListenerBallInputs ==
  {BallDto(getCurrentInnings.batsmanOnStrike, SubmittedNonStriker,
           getCurrentInnings.currentBowler, sh) : sh \in ListenerBallShapes}

InitListeners == InitWith(ListenerConfigDtos)

ListenerRecordToss == RecordToss /\ Returned

ListenerStartInnings == StartInnings /\ Returned

ListenerProcessBall ==
  /\ Len(eventStore) < MaxListenerEvents
  /\ HasCurrentInnings
  /\ \E dto \in ListenerBallInputs : processBall(dto) /\ Returned

ListenerProcessBallThrows ==
  /\ Len(eventStore) < MaxListenerEvents
  /\ HasCurrentInnings
  /\ \E dto \in ListenerBallInputs, point \in EmitPoints :
       processBallListenerThrows(dto, point)

NextListeners ==
  \/ ListenerRecordToss
  \/ ListenerStartInnings
  \/ ListenerProcessBall
  \/ ListenerProcessBallThrows

SpecListeners == InitListeners /\ [][NextListeners]_vars

\* ---------------------------------------------------------------- SpecRuns: runs and extras of every kind

\* Deliveries accepted in a run of SpecRuns.
MaxRunsEvents == 2

RunsConfigDtos ==
  { [oversPerInnings |-> 1, playersPerSide |-> 3, powerplayOvers |-> {1},
     maxOversPerBowler |-> 1, wideRedelivery |-> TRUE, noBallRedelivery |-> TRUE,
     freeHitOnNoBall |-> TRUE] }

\* No run, a single or a four off the bat, with no extra or one of each kind.
RunsBallShapes ==
  {Shape(r, NoExtras, NoWicket) : r \in {0, 1, 4}}
  \cup {Shape(r, [type |-> t, runs |-> x], NoWicket) :
          r \in {0, 1, 4}, t \in {WIDE, NO_BALL, BYE, LEG_BYE, PENALTY}, x \in {1, 5}}

\* The scorer of SpecRuns submits the batsman on strike and the current bowler.
RunsBallInputs ==
  {BallDto(getCurrentInnings.batsmanOnStrike, SubmittedNonStriker,
           getCurrentInnings.currentBowler, sh) : sh \in RunsBallShapes}

InitRuns == InitWith(RunsConfigDtos)

RunsRecordToss == RecordToss /\ Returned

RunsStartInnings == StartInnings /\ Returned

RunsProcessBall ==
  /\ Len(eventStore) < MaxRunsEvents
  /\ HasCurrentInnings
  /\ \E dto \in RunsBallInputs : processBall(dto) /\ Returned

NextRuns ==
  \/ RunsRecordToss
  \/ RunsStartInnings
  \/ RunsProcessBall

SpecRuns == InitRuns /\ [][NextRuns]_vars

\* ---------------------------------------------------------------- SpecFreeHit: no-balls and what follows

\* Deliveries accepted in a run of SpecFreeHit.
MaxFreeHitEvents == 3

FreeHitConfigDtos ==
  { [oversPerInnings |-> 1, playersPerSide |-> 2, powerplayOvers |-> {},
     maxOversPerBowler |-> 1, wideRedelivery |-> TRUE, noBallRedelivery |-> TRUE,
     freeHitOnNoBall |-> f] : f \in BOOLEAN }

\* A dot ball, a no-ball, a run-out off a no-ball.
FreeHitBallShapes ==
  {Shape(0, NoExtras, NoWicket),
   Shape(0, [type |-> NO_BALL, runs |-> 1], NoWicket),
   Shape(0, [type |-> NO_BALL, runs |-> 1], Wicket("run_out", Undefined))}

\* The scorer of SpecFreeHit submits the batsman on strike and the current bowler.
FreeHitBallInputs ==
  {BallDto(getCurrentInnings.batsmanOnStrike, SubmittedNonStriker,
           getCurrentInnings.currentBowler, sh) : sh \in FreeHitBallShapes}

InitFreeHit == InitWith(FreeHitConfigDtos)

FreeHitRecordToss == RecordToss /\ Returned

FreeHitStartInnings == StartInnings /\ Returned

FreeHitProcessBall ==
  /\ Len(eventStore) < MaxFreeHitEvents
  /\ HasCurrentInnings
  /\ \E dto \in FreeHitBallInputs : processBall(dto) /\ Returned

FreeHitUndoLastBall ==
  /\ Undone < MaxUndos
  /\ undoLastBall
  /\ Returned

NextFreeHit ==
  \/ FreeHitRecordToss
  \/ FreeHitStartInnings
  \/ FreeHitProcessBall
  \/ FreeHitUndoLastBall

SpecFreeHit == InitFreeHit /\ [][NextFreeHit]_vars

\* ---------------------------------------------------------------- SpecUndo: deliveries and undos

\* Deliveries accepted in a run of SpecUndo.
MaxUndoEvents == 4

UndoBallShapes == {Shape(0, NoExtras, NoWicket), Shape(1, NoExtras, NoWicket)}

\* The scorer of SpecUndo submits the batsman on strike and the current bowler.
UndoBallInputs ==
  {BallDto(getCurrentInnings.batsmanOnStrike, SubmittedNonStriker,
           getCurrentInnings.currentBowler, sh) : sh \in UndoBallShapes}

InitUndo == InitWith(RunsConfigDtos)

UndoRecordToss == RecordToss /\ Returned

UndoStartInnings == StartInnings /\ Returned

UndoProcessBall ==
  /\ Len(eventStore) < MaxUndoEvents
  /\ HasCurrentInnings
  /\ \E dto \in UndoBallInputs : processBall(dto) /\ Returned

\* undoLastBall in any state, with or without a ball to undo.
UndoUndoLastBall == undoLastBall

NextUndo ==
  \/ UndoRecordToss
  \/ UndoStartInnings
  \/ UndoProcessBall
  \/ UndoUndoLastBall

SpecUndo == InitUndo /\ [][NextUndo]_vars

\* ---------------------------------------------------------------- SpecToss: any toss

\* Deliveries accepted in a run of SpecToss.
MaxTossEvents == 6

\* The team ids a TossResultDto may carry: recordToss takes any id, of a team
\* of the match or not.
TossWinners == {TeamA, TeamB, "team_c"}

AnyTossInputs ==
  {[tossWinner |-> t, decision |-> d] : t \in TossWinners, d \in {"bat", "bowl"}}

InitToss == InitWith(InningsConfigDtos)

TossRecordToss == \E dto \in AnyTossInputs : recordToss(dto) /\ Returned

TossStartInnings == StartInnings /\ Returned

TossProcessBall ==
  /\ Len(eventStore) < MaxTossEvents
  /\ HasCurrentInnings
  /\ \E dto \in InningsBallInputs : processBall(dto) /\ Returned

NextToss ==
  \/ TossRecordToss
  \/ TossStartInnings
  \/ TossProcessBall

SpecToss == InitToss /\ [][NextToss]_vars

\* ---------------------------------------------------------------- SpecCompletion: a milestone on the last ball

\* Deliveries accepted in a run of SpecCompletion.
MaxCompletionEvents == 8

\* Three wickets end the innings.
CompletionConfigDtos ==
  { [oversPerInnings |-> 1, playersPerSide |-> 4, powerplayOvers |-> {},
     maxOversPerBowler |-> 1, wideRedelivery |-> TRUE, noBallRedelivery |-> TRUE,
     freeHitOnNoBall |-> TRUE] }

CompletionBallShapes ==
  {Shape(0, NoExtras, Wicket("bowled", Undefined)),
   Shape(0, NoExtras, NoWicket)}

\* The scorer of SpecCompletion submits the batsman on strike and the current bowler.
CompletionBallInputs ==
  {BallDto(getCurrentInnings.batsmanOnStrike, SubmittedNonStriker,
           getCurrentInnings.currentBowler, sh) : sh \in CompletionBallShapes}

InitCompletion == InitWith(CompletionConfigDtos)

CompletionRecordToss == RecordToss /\ Returned

CompletionStartInnings == StartInnings /\ Returned

CompletionProcessBall ==
  /\ Len(eventStore) < MaxCompletionEvents
  /\ HasCurrentInnings
  /\ \E dto \in CompletionBallInputs : processBall(dto) /\ Returned

NextCompletion ==
  \/ CompletionRecordToss
  \/ CompletionStartInnings
  \/ CompletionProcessBall

SpecCompletion == InitCompletion /\ [][NextCompletion]_vars

\* ---------------------------------------------------------------- SpecNamedInnings: deliveries naming an innings

\* Deliveries accepted in a run of SpecNamedInnings.
MaxNamedEvents == 8

\* The scorer of SpecNamedInnings submits the batsman on strike and the
\* current bowler, for either innings number.
NamedBallInputs ==
  {[dto EXCEPT !.innings = n] : dto \in CompletionBallInputs, n \in {1, 2}}

InitNamed == InitWith(CompletionConfigDtos)

NamedRecordToss == RecordToss /\ Returned

NamedStartInnings == StartInnings /\ Returned

NamedProcessBall ==
  /\ Len(eventStore) < MaxNamedEvents
  /\ HasCurrentInnings
  /\ \E dto \in NamedBallInputs : processBall(dto)

NextNamed ==
  \/ NamedRecordToss
  \/ NamedStartInnings
  \/ NamedProcessBall

SpecNamedInnings == InitNamed /\ [][NextNamed]_vars

\* ---------------------------------------------------------------- observing a step

\* The step is a processBall call that returned: one event was stored.
Accepted == Len(eventStore') = Len(eventStore) + 1

\* The event an accepted processBall stored.
Delivered == eventStore'[Len(eventStore')]

\* The current innings before and after an accepted processBall.
Before == innings[currentInnings]
After == innings'[currentInnings]

\* ---------------------------------------------------------------- C1

\* Match u is match s in every field; of the stored event objects, those
\* that s holds are compared.
SameMatch(s, u) ==
  /\ u.config = s.config
  /\ u.status = s.status
  /\ u.tossWinner = s.tossWinner
  /\ u.tossDecision = s.tossDecision
  /\ u.currentInnings = s.currentInnings
  /\ u.innings = s.innings
  /\ u.result = s.result
  /\ u.winningTeam = s.winningTeam
  /\ u.winMargin = s.winMargin
  /\ u.events = s.events
  /\ u.undoStack = s.undoStack
  /\ SubSeq(u.eventStore, 1, Len(s.eventStore)) = s.eventStore

\* C1: whenever processBall accepts a delivery in a match state S, undoLastBall
\* called right after it leaves the match and its current innings equal to S
\* in every field.
C1_UndoRestoresPreDeliveryState ==
  [][Accepted => SameMatch(Match, undoLastBallOn(Match)')]_vars

\* ---------------------------------------------------------------- C2

\* Runs off the bat plus extras runs of a delivery event.
EventRuns(e) == e.payload.runsScored + e.payload.extras.runs

\* The sum of EventRuns over the non-deleted events of innings n.
LiveRuns(n) ==
  SumSeq([i \in 1..Len(events) |->
            IF eventStore[events[i]].period.innings = n /\ ~eventStore[events[i]].isDeleted
            THEN EventRuns(eventStore[events[i]]) ELSE 0])

\* C2: after any sequence of accepted processBall calls and undoLastBall calls,
\* each innings' totalRuns is the sum of runs off the bat plus extras runs over
\* the non-deleted delivery events of that innings.
C2_TotalRunsIsSumOfLiveEvents ==
  \A n \in DOMAIN innings : innings[n].totalRuns = LiveRuns(n)

\* C2 as long as no delivery has been undone.
C2_NoUndo_TotalRunsIsSum == Undone = 0 => C2_TotalRunsIsSumOfLiveEvents

\* ---------------------------------------------------------------- C3

\* The rejections of a delivery: the match is not active, the innings is not
\* in progress, the striker or the bowler is not the innings' one, the bowler
\* has bowled his maximum overs.
MustReject(dto) ==
  \/ status # ACTIVE
  \/ Before.status # IN_PROGRESS
  \/ dto.batsmanOnStrike # Before.batsmanOnStrike
  \/ dto.bowler # Before.currentBowler
  \/ Before.bowlerStats[dto.bowler].overs >= config.maxOversPerBowler

\* C3: a processBall that rejects its delivery leaves the match, the innings
\* and the event log as they were and appends no event; a processBall that
\* accepts it appends exactly one event.
C3_RejectionChangesNothing ==
  [][\A dto \in OverBallInputs :
       processBall(dto) =>
         IF MustReject(dto)
         THEN reply'.error # OK /\ UNCHANGED matchVars
         ELSE /\ reply'.error = OK
              /\ events' = Append(events, Len(eventStore) + 1)
              /\ Len(eventStore') = Len(eventStore) + 1
              /\ SubSeq(eventStore', 1, Len(eventStore)) = eventStore]_vars

\* A delivery was rejected because its bowler had bowled his maximum overs.
C3_Witness_CapRejected ==
  /\ reply.op = "processBall"
  /\ reply.error = "Bowler has completed maximum overs"
  /\ events # <<>>

\* ---------------------------------------------------------------- C4

\* C4: processBall rejects, with no state change, every delivery whose runs
\* off the bat are outside 0..6 and whose extra type is none.
C4_RunsOutsideRangeRejected ==
  [][\A dto \in BallInputs :
       (dto.runsScored \notin 0..6 /\ dto.extras.type = NONE /\ processBall(dto))
         => (reply'.error # OK /\ UNCHANGED matchVars)]_vars

\* ---------------------------------------------------------------- C5

\* A delivery that is to be bowled again under the configuration's toggles.
IllegalByToggles(e) ==
  \/ e.payload.extras.type = WIDE /\ config.wideRedelivery
  \/ e.payload.extras.type = NO_BALL /\ config.noBallRedelivery

\* The delivery advanced neither the innings' nor the bowler's ball counter.
CountersUnchanged(bowler) ==
  /\ After.balls = Before.balls
  /\ After.overs = Before.overs
  /\ After.bowlerStats[bowler].balls = Before.bowlerStats[bowler].balls
  /\ After.bowlerStats[bowler].overs = Before.bowlerStats[bowler].overs

\* C5: an accepted delivery advances neither ball counter exactly when it is a
\* wide and wideRedelivery is set, or a no-ball and noBallRedelivery is set.
C5_IllegalExactlyWhenRedelivered ==
  [][Accepted =>
       (IllegalByToggles(Delivered) <=> CountersUnchanged(Delivered.actors.bowler))]_vars

\* ---------------------------------------------------------------- C6

\* The runs the batsmen crossed for: off the bat, byes and leg-byes.
CrossingRuns(e) ==
  e.payload.runsScored
  + (IF e.payload.extras.type \in {BYE, LEG_BYE} THEN e.payload.extras.runs ELSE 0)

\* The delivery is neither a wide nor a no-ball.
IsLegal(e) == e.payload.extras.type \notin {WIDE, NO_BALL}

\* The accepted delivery is the sixth legal delivery of its over.
OverEnding == IsLegal(Delivered) /\ Before.balls = 5

Exchanged ==
  /\ After.batsmanOnStrike = Before.batsmanNonStrike
  /\ After.batsmanNonStrike = Before.batsmanOnStrike

Unmoved ==
  /\ After.batsmanOnStrike = Before.batsmanOnStrike
  /\ After.batsmanNonStrike = Before.batsmanNonStrike

OverDeliveries(n, k) ==
  {i \in 1..Len(eventStore') :
     eventStore'[i].period.innings = n /\ eventStore'[i].period.over = k}

\* Every delivery of the over the accepted delivery ends, that delivery
\* included, scored no run off the bat and was neither a wide nor a no-ball.
CompletedOverIsMaiden ==
  \A i \in OverDeliveries(Delivered.period.innings, Delivered.period.over) :
    eventStore'[i].payload.runsScored = 0 /\ IsLegal(eventStore'[i])

\* The maiden_over notifications of the step.
MaidenNotifications ==
  Cardinality({i \in 1..Len(emitted') :
                 emitted'[i] = Emit("commentary.trigger", "maiden_over")})

\* C7: when the sixth legal delivery of an over is applied, the bowler's maiden
\* count grows by one and one maiden_over notification is emitted if every
\* delivery of that over scored no run off the bat and none was a wide or a
\* no-ball; otherwise the count stays and no maiden_over is emitted.
C7_MaidenCreditedForCompletedOver ==
  [][(Accepted /\ OverEnding) =>
       LET bowler == Delivered.actors.bowler
           credited == After.bowlerStats[bowler].maidens - Before.bowlerStats[bowler].maidens
       IN IF CompletedOverIsMaiden
          THEN credited = 1 /\ MaidenNotifications = 1
          ELSE credited = 0 /\ MaidenNotifications = 0]_vars

\* ---------------------------------------------------------------- C8

\* The legal deliveries among the ids of one per-over list.
LegalIn(ids) == {i \in 1..Len(ids) : IsLegal(eventStore[ids[i]])}

\* C8: every sealed over of an innings (every list of overHistory but the
\* last) holds exactly six legal deliveries, all bowled while the innings'
\* over counter had the same value.
C8_SealedOversHoldSixLegalBalls ==
  \A n \in DOMAIN innings :
    \A k \in 1..(Len(innings[n].overHistory) - 1) :
      LET ids == innings[n].overHistory[k]
      IN /\ Cardinality(LegalIn(ids)) = 6
         /\ \A i, j \in 1..Len(ids) :
              eventStore[ids[i]].period.over = eventStore[ids[j]].period.over

\* ---------------------------------------------------------------- C9

C10_WicketsAndOversWithinLimits ==
  \A n \in DOMAIN innings :
    /\ innings[n].wickets <= config.playersPerSide - 1
    /\ innings[n].overs <= config.oversPerInnings

\* The first innings ran its full overs, the second was bowled out, and a
\* delivery has been undone on the way.
C10_Witness_BothLimitsReached ==
  /\ DOMAIN innings = {1, 2}
  /\ innings[1].overs = config.oversPerInnings
  /\ innings[2].wickets = config.playersPerSide - 1
  /\ Undone > 0

\* ---------------------------------------------------------------- C11

\* The partnerships of innings n that are active.
ActivePartnerships(n) ==
  {i \in 1..Len(innings[n].partnerships) : innings[n].partnerships[i].isActive}

\* C11: while an innings is in progress exactly one of its partnerships is
\* active, whatever processBall, bringNewBatsman and undoLastBall calls were made.
C11_OneActivePartnership ==
  \A n \in DOMAIN innings :
    innings[n].status = IN_PROGRESS => Cardinality(ActivePartnerships(n)) = 1

\* ---------------------------------------------------------------- C12

\* Player b has been introduced to innings n and is not out.
NotOutIn(n, b) ==
  b \in DOMAIN innings[n].batsmanStats /\ ~innings[n].batsmanStats[b].isOut

\* C12: in an innings in progress the striker and the non-striker are two
\* different players, each with a batsman-statistics entry and neither out.
C12_TwoNotOutBatsmenAtTheCrease ==
  \A n \in DOMAIN innings :
    innings[n].status = IN_PROGRESS =>
      /\ innings[n].batsmanOnStrike # innings[n].batsmanNonStrike
      /\ NotOutIn(n, innings[n].batsmanOnStrike)
      /\ NotOutIn(n, innings[n].batsmanNonStrike)

\* ---------------------------------------------------------------- C13

\* Event object e with its deleted flag cleared.
Unflagged(e) == [e EXCEPT !.isDeleted = FALSE]

\* C13: the match's event log never loses an entry: every entry stays where it
\* is, nothing but its deleted flag ever changes, so the log never gets shorter.
C13_EventLogNeverLosesAnEntry ==
  [][/\ Len(events') >= Len(events)
     /\ \A i \in 1..Len(events) :
          /\ events'[i] = events[i]
          /\ Unflagged(eventStore'[events'[i]]) = Unflagged(eventStore[events[i]])]_vars

\* ---------------------------------------------------------------- C14

\* The step changes the match status along an edge of the lifecycle, made by
\* the operation of that edge.
StatusEdge ==
  \/ status = PENDING /\ status' = TOSS /\ reply'.op = "recordToss"
  \/ status = TOSS /\ status' = ACTIVE /\ reply'.op = "startInnings"
       /\ currentInnings' = 1
  \/ status = ACTIVE /\ status' = INNINGS_BREAK /\ reply'.op = "processBall"
       /\ currentInnings = 1 /\ innings'[1].status = INNINGS_COMPLETED
  \/ status = INNINGS_BREAK /\ status' = ACTIVE /\ reply'.op = "startInnings"
       /\ currentInnings' = 2
  \/ status = ACTIVE /\ status' = COMPLETED /\ reply'.op = "processBall"
       /\ currentInnings = 2 /\ innings'[2].status = INNINGS_COMPLETED

\* The call was rejected and changed nothing of the match.
Rejected == reply'.error # OK /\ UNCHANGED matchVars

\* C14: the match status only changes along pending -> toss -> active ->
\* innings_break -> active -> completed; recordToss outside pending and
\* startInnings outside toss and innings_break are rejected with no state
\* change; every accepted startInnings starts an innings not started before,
\* of the two there are, and currentInnings never decreases.
C14_StatusLifecycle ==
  [][/\ status' # status => StatusEdge
     /\ reply'.op = "recordToss" =>
          IF status = PENDING THEN reply'.error = OK /\ status' = TOSS ELSE Rejected
     /\ reply'.op = "startInnings" =>
          IF status \in {TOSS, INNINGS_BREAK}
          THEN /\ reply'.error = OK
               /\ status' = ACTIVE
               /\ currentInnings' \notin DOMAIN innings
               /\ DOMAIN innings' = DOMAIN innings \cup {currentInnings'}
          ELSE Rejected
     /\ currentInnings' >= currentInnings
     /\ DOMAIN innings' \subseteq {1, 2}]_vars

\* The match went through its whole lifecycle and a further startInnings was
\* rejected.
C14_Witness_StartRejectedAfterCompletion ==
  /\ status = COMPLETED
  /\ DOMAIN innings = {1, 2}
  /\ reply.op = "startInnings"
  /\ reply.error # OK

\* ---------------------------------------------------------------- C15

\* C15: once the match is completed no operation changes any part of it.
C15_CompletedMatchIsImmutable ==
  [][status = COMPLETED => UNCHANGED matchVars]_vars

\* ---------------------------------------------------------------- C16

\* The rewards of tier the step returned.
RewardsOfTier(tier) == {i \in 1..Len(reply'.rewards) : reply'.rewards[i].tier = tier}

\* The dismissal types credited to the bowler.
CreditedTypes == {"bowled", "caught", "lbw", "stumped", "hit_wicket"}

\* C16: a five_wicket_haul reward for bowler B is produced by exactly the
\* delivery on which B's credited wickets rise from 4 to 5, and once by it;
\* B's wicket count rises, by one, exactly on a dismissal of a credited type,
\* so a run-out bowled while B has 4 wickets neither counts nor is rewarded.
C16_FiveWicketHaul ==
  [][Accepted =>
       LET B == Delivered.actors.bowler
           before == Before.bowlerStats[B].wickets
           after == After.bowlerStats[B].wickets
           credited == /\ Delivered.payload.wicket.isWicket
                       /\ Delivered.payload.wicket.type \in CreditedTypes
       IN /\ after = before + (IF credited THEN 1 ELSE 0)
          /\ Cardinality(RewardsOfTier("five_wicket_haul"))
               = (IF before = 4 /\ after = 5 THEN 1 ELSE 0)
          /\ \A i \in RewardsOfTier("five_wicket_haul") :
               reply'.rewards[i].playerId = B]_vars

\* The bowler had four wickets, a run-out followed, and his next wicket, the
\* fifth credited to him, was rewarded.
C16_Witness_FifthWicketAfterRunOut ==
  /\ Len(eventStore) = 6
  /\ \A i \in {1, 2, 3, 4, 6} : eventStore[i].payload.wicket.type = "bowled"
  /\ eventStore[5].payload.wicket.type = "run_out"
  /\ getCurrentInnings.bowlerStats["w1"].wickets = 5
  /\ \E i \in 1..Len(reply.rewards) : reply.rewards[i] = Reward("five_wicket_haul", "w1")

\* ---------------------------------------------------------------- C17

\* The positions of the log evs that hold a dismissal delivery bowled by B.
DismissalsBy(evs, B) ==
  {k \in 1..Len(evs) : evs[k].payload.wicket.isWicket /\ evs[k].actors.bowler = B}

\* The last three (or fewer) positions of the set W.
LastThree(W) == {k \in W : Cardinality({j \in W : j >= k}) <= 3}

\* A legal delivery by B lies between two consecutive positions of T.
LegalBetween(evs, B, T) ==
  \E k \in (1..Len(evs)) \ T :
    /\ \E a, b \in T : a < k /\ k < b
    /\ evs[k].actors.bowler = B
    /\ IsLegal(evs[k])

\* The last three dismissal deliveries of B in the log evs are three, with no
\* legal delivery of B between them.
ThreeInARow(evs, B, T) == Cardinality(T) = 3 /\ ~LegalBetween(evs, B, T)

\* The event log after the step, as event records.
LogAfter == [k \in 1..Len(events') |-> eventStore'[events'[k]]]

\* C17: an accepted delivery produces a hat_trick reward, one and for its
\* bowler, if and only if it is a dismissal and the last three dismissal
\* deliveries of that bowler in the event log have no legal delivery (neither
\* wide nor no-ball) of the same bowler between consecutive ones; deliveries of
\* other bowlers and the bowler's own wides in between do not prevent it.
C17_HatTrick ==
  [][Accepted =>
       /\ Cardinality(RewardsOfTier("hat_trick"))
            = (IF /\ Delivered.payload.wicket.isWicket
                  /\ ThreeInARow(LogAfter, Delivered.actors.bowler,
                                 LastThree(DismissalsBy(LogAfter, Delivered.actors.bowler)))
               THEN 1 ELSE 0)
       /\ \A i \in RewardsOfTier("hat_trick") :
            reply'.rewards[i].playerId = Delivered.actors.bowler]_vars

\* Bowler w1 took two wickets with the last balls of an over, w2 bowled the
\* next over, and w1's first ball of the following over, a wicket, was rewarded.
C17_Witness_AcrossAnOverOfAnotherBowler ==
  /\ Len(events) = 13
  /\ \A k \in {5, 6, 13} :
       /\ eventStore[events[k]].payload.wicket.isWicket
       /\ eventStore[events[k]].actors.bowler = "w1"
  /\ \A k \in 7..12 :
       /\ eventStore[events[k]].actors.bowler = "w2"
       /\ IsLegal(eventStore[events[k]])
  /\ \E i \in 1..Len(reply.rewards) : reply.rewards[i] = Reward("hat_trick", "w1")

\* Bowler w1 took two wickets, bowled a dot ball, and took a third wicket:
\* no hat_trick reward.
C17_Witness_LegalBallInBetween ==
  /\ Len(events) = 4
  /\ \A k \in {1, 2, 4} : eventStore[events[k]].payload.wicket.isWicket
  /\ ~eventStore[events[3]].payload.wicket.isWicket
  /\ IsLegal(eventStore[events[3]])
  /\ reply.op = "processBall"
  /\ \A i \in 1..Len(reply.rewards) : reply.rewards[i].tier # "hat_trick"

\* ---------------------------------------------------------------- C18

\* The striker of the accepted delivery, before and after it.
StrikerBefore == Before.batsmanStats[Delivered.actors.batsmanOnStrike]
StrikerAfter == After.batsmanStats[Delivered.actors.batsmanOnStrike]

\* The accepted delivery returns exactly n rewards of the tier, for its striker.
StrikerRewarded(tier, n) ==
  /\ Cardinality(RewardsOfTier(tier)) = n
  /\ \A i \in RewardsOfTier(tier) :
       reply'.rewards[i].playerId = Delivered.actors.batsmanOnStrike

\* C18: an accepted delivery produces nifty_fifty exactly when the striker's
\* runs were below 50 before it and are 50 or more after it, and gayle_storm
\* exactly when they were below 100 before it, are 100 or more after it and
\* 100 x runs > 150 x balls faced after it.
C18_BattingMilestones ==
  [][Accepted =>
       /\ StrikerRewarded("nifty_fifty",
             IF StrikerBefore.runs < 50 /\ StrikerAfter.runs >= 50 THEN 1 ELSE 0)
       /\ StrikerRewarded("gayle_storm",
             IF /\ StrikerBefore.runs < 100
                /\ StrikerAfter.runs >= 100
                /\ 100 * StrikerAfter.runs > 150 * StrikerAfter.ballsFaced
             THEN 1 ELSE 0)]_vars

\* The same with the strike rate as the code stores it: zero while the
\* batsman has faced no ball.
C18_StoredStrikeRate_BattingMilestones ==
  [][Accepted =>
       /\ StrikerRewarded("nifty_fifty",
             IF StrikerBefore.runs < 50 /\ StrikerAfter.runs >= 50 THEN 1 ELSE 0)
       /\ StrikerRewarded("gayle_storm",
             IF /\ StrikerBefore.runs < 100
                /\ StrikerAfter.runs >= 100
                /\ StrikerAfter.ballsFaced > 0
                /\ 100 * StrikerAfter.runs > 150 * StrikerAfter.ballsFaced
             THEN 1 ELSE 0)]_vars

\* ---------------------------------------------------------------- C19

\* C19: after every accepted delivery of a second innings, requiredRuns is
\* target - totalRuns, remainingBalls is 6 x oversPerInnings - (6 x overs +
\* balls) and, when remainingBalls > 0, requiredRunRate x remainingBalls is
\* 6 x requiredRuns.
C19_ChaseFigures ==
  [][Accepted /\ currentInnings = 2 =>
       /\ IsSome(After.target)
       /\ After.requiredRuns = Some(Val(After.target) - After.totalRuns)
       /\ After.remainingBalls
            = Some(6 * config.oversPerInnings - (6 * After.overs + After.balls))
       /\ Val(After.remainingBalls) > 0 =>
            /\ IsSome(After.requiredRunRate)
            /\ Val(After.requiredRunRate).num * Val(After.remainingBalls)
                 = 6 * Val(After.requiredRuns) * Val(After.requiredRunRate).den]_vars

\* Chasing a target of 4, the side has 2 runs after 2 balls of its only over:
\* 2 runs required from 4 balls, at 3 an over.
C19_Witness_MidChase ==
  /\ currentInnings = 2
  /\ reply.op = "processBall"
  /\ reply.error = OK
  /\ getCurrentInnings.target = Some(4)
  /\ getCurrentInnings.totalRuns = 2
  /\ getCurrentInnings.balls = 2
  /\ getCurrentInnings.requiredRuns = Some(2)
  /\ getCurrentInnings.remainingBalls = Some(4)
  /\ getCurrentInnings.requiredRunRate = Some(Rat(12, 4))

\* ---------------------------------------------------------------- C20

\* The innings is all out, has used its overs or, batting second, has
\* reached its target.
InningsOver(inn) ==
  \/ inn.wickets >= config.playersPerSide - 1
  \/ inn.overs >= config.oversPerInnings
  \/ (inn.inningsNumber = 2 /\ inn.totalRuns >= Val(inn.target))

\* C20: after every accepted delivery the current innings is completed if and
\* only if its wickets are playersPerSide - 1 or more, or its overs are
\* oversPerInnings or more, or, in the second innings, its runs have reached
\* the target; the first innings completing puts the match in innings_break,
\* the second makes it completed with a result, and otherwise the innings
\* stays in progress and the match active.
C20_InningsCompletion ==
  [][Accepted =>
       /\ After.status = INNINGS_COMPLETED <=> InningsOver(After)
       /\ InningsOver(After) /\ After.inningsNumber = 1 => status' = INNINGS_BREAK
       /\ InningsOver(After) /\ After.inningsNumber = 2 =>
            status' = COMPLETED /\ result' # Undefined
       /\ ~InningsOver(After) => After.status = IN_PROGRESS /\ status' = ACTIVE]_vars

\* The side batting second passed the target with wickets and balls in hand,
\* and the match is completed with a result.
C20_Witness_TargetChased ==
  /\ currentInnings = 2
  /\ reply.op = "processBall"
  /\ reply.error = OK
  /\ getCurrentInnings.wickets < config.playersPerSide - 1
  /\ getCurrentInnings.overs < config.oversPerInnings
  /\ getCurrentInnings.totalRuns >= Val(getCurrentInnings.target)
  /\ getCurrentInnings.status = INNINGS_COMPLETED
  /\ status = COMPLETED
  /\ result = "team_b_won"

\* ---------------------------------------------------------------- C21

\* The result value that names the team as the winner.
WonBy(team) == IF team = TeamA THEN "team_a_won" ELSE "team_b_won"

\* C21: in a completed match, if the second innings' total is the higher the
\* team batting second has won by (playersPerSide - 1 - its wickets) wickets;
\* if the first innings' total is the higher the team batting first has won by
\* the difference in runs; if the totals are equal the result is a tie with no
\* winner; a second innings that reached its target is a win for the team
\* batting second.
C21_MatchResult ==
  status = COMPLETED =>
    /\ innings[1].battingTeamId # innings[2].battingTeamId
    /\ innings[2].totalRuns > innings[1].totalRuns =>
         /\ winningTeam = innings[2].battingTeamId
         /\ result = WonBy(innings[2].battingTeamId)
         /\ winMargin = [n |-> config.playersPerSide - 1 - innings[2].wickets,
                         unit |-> "wickets"]
    /\ innings[1].totalRuns > innings[2].totalRuns =>
         /\ winningTeam = innings[1].battingTeamId
         /\ result = WonBy(innings[1].battingTeamId)
         /\ winMargin = [n |-> innings[1].totalRuns - innings[2].totalRuns,
                         unit |-> "runs"]
    /\ innings[1].totalRuns = innings[2].totalRuns =>
         /\ result = "tie"
         /\ winningTeam = Undefined
         /\ winMargin = Undefined
    /\ innings[2].totalRuns >= Val(innings[2].target) =>
         winningTeam = innings[2].battingTeamId

\* The side batting first made 3, the side batting second was all out for 1:
\* the side batting first has won by 2 runs.
C21_Witness_WonByRuns ==
  /\ status = COMPLETED
  /\ innings[1].totalRuns = 3
  /\ innings[2].totalRuns = 1
  /\ winningTeam = TeamA
  /\ result = "team_a_won"
  /\ winMargin = [n |-> 2, unit |-> "runs"]

\* ---------------------------------------------------------------- C22

\* changeBowler must refuse bowler w: the over is under way, w is the current
\* bowler, or w has bowled the maximum of overs.
MustRefuse(w) ==
  \/ Before.balls # 0
  \/ Before.currentBowler = w
  \/ (w \in DOMAIN Before.bowlerStats
      /\ Before.bowlerStats[w].overs >= config.maxOversPerBowler)

\* A statistics entry of bowler w with nothing bowled.
ZeroedStats(s, w) ==
  /\ s.playerId = w
  /\ s.overs = 0 /\ s.balls = 0 /\ s.maidens = 0 /\ s.runsConceded = 0
  /\ s.wickets = 0 /\ s.wides = 0 /\ s.noBalls = 0 /\ s.dotBalls = 0
  /\ s.economyRate = ZeroRate

\* Bowler w became the current bowler, with a zeroed entry if he had none,
\* and nothing else of the match changed.
MadeCurrent(w) ==
  /\ reply'.error = OK
  /\ After.currentBowler = w
  /\ DOMAIN After.bowlerStats = DOMAIN Before.bowlerStats \cup {w}
  /\ \A x \in DOMAIN Before.bowlerStats : After.bowlerStats[x] = Before.bowlerStats[x]
  /\ w \notin DOMAIN Before.bowlerStats => ZeroedStats(After.bowlerStats[w], w)
  /\ innings' = [innings EXCEPT ![currentInnings] =
                   [Before EXCEPT !.currentBowler = After.currentBowler,
                                  !.bowlerStats = After.bowlerStats]]
  /\ UNCHANGED <<config, status, tossWinner, tossDecision, currentInnings,
                 result, winningTeam, winMargin, events, undoStack, eventStore>>

\* C22: with a current innings, changeBowler fails and changes nothing when
\* the ball counter is not 0, when the requested bowler is the current bowler
\* or when he has maxOversPerBowler completed overs; otherwise it makes him
\* the current bowler, with a zeroed statistics entry if he had none, and
\* changes nothing else.
C22_ChangeBowler ==
  [][\A w \in BowlingBowlers :
       HasCurrentInnings /\ changeBowler([newBowler |-> w]) =>
         IF MustRefuse(w) THEN Rejected ELSE MadeCurrent(w)]_vars

\* A bowler who has bowled his maximum was asked for at the end of another
\* bowler's over and refused.
C22_Witness_RefusedAtTheCap ==
  /\ reply = Reply("changeBowler", "Bowler has completed maximum overs")
  /\ getCurrentInnings.balls = 0
  /\ \E w \in DOMAIN getCurrentInnings.bowlerStats :
       /\ w # getCurrentInnings.currentBowler
       /\ getCurrentInnings.bowlerStats[w].overs >= config.maxOversPerBowler

\* ---------------------------------------------------------------- C23

\* The innings with every update of the delivery: the ball applied and, if
\* that completes the innings, the innings ended.
Settled(applied) ==
  IF isInningsComplete(applied.innings, config)
  THEN endInnings(applied.innings, config).innings
  ELSE applied.innings

FullyApplied(dto) ==
  Settled(applyBallToInnings(getCurrentInnings,
                             createBallEvent(getCurrentInnings, dto, Len(eventStore) + 1),
                             config, eventStore))

\* The step commits the delivery dto: the innings has all its updates and
\* its event is the last of the event log and of the undo stack.
CommittedInFull(dto) ==
  /\ After = FullyApplied(dto)
  /\ Len(eventStore') = Len(eventStore) + 1
  /\ events' = Append(events, Len(eventStore'))
  /\ undoStack' = Append(undoStack, Len(eventStore'))

\* C23: when a listener of a notification emitted while processBall handles
\* an accepted delivery throws, the delivery is still committed in full: the
\* innings has all of its updates and the event is in the event log and on
\* the undo stack.
C23_ListenerFailureKeepsTheDelivery ==
  [][reply'.error = "listener threw" =>
       \E dto \in ListenerBallInputs :
         validateBallEvent(getCurrentInnings, dto) = OK /\ CommittedInFull(dto)]_vars

\* ---------------------------------------------------------------- C24

\* The bowlers of the legal deliveries of over k (period.over, from 0) of
\* innings n.
BowlersOfOver(n, k) ==
  {eventStore[events[i]].actors.bowler :
     i \in {j \in 1..Len(events) :
              /\ eventStore[events[j]].period.innings = n
              /\ eventStore[events[j]].period.over = k
              /\ IsLegal(eventStore[events[j]])}}

\* C24: in every innings, the bowler of the legal deliveries of an over is
\* not the bowler of the legal deliveries of the over before it.
C24_NoConsecutiveOvers ==
  \A n \in DOMAIN innings :
    \A k \in 0..innings[n].overs :
      BowlersOfOver(n, k) \cap BowlersOfOver(n, k + 1) = {}

\* ---------------------------------------------------------------- C25

\* C25: every bowler's completed overs are at most maxOversPerBowler, and a
\* delivery is accepted only from a bowler who has fewer.
C25_BowlerOversWithinTheCap ==
  [][/\ \A n \in DOMAIN innings' :
          \A w \in DOMAIN innings'[n].bowlerStats :
            innings'[n].bowlerStats[w].overs <= config'.maxOversPerBowler
     /\ Accepted =>
          Before.bowlerStats[Delivered.actors.bowler].overs < config.maxOversPerBowler]_vars

\* The current bowler has bowled his maximum and his next delivery was refused.
C25_Witness_DeliveryRefusedAtTheCap ==
  /\ reply = Reply("processBall", "Bowler has completed maximum overs")
  /\ getCurrentInnings.bowlerStats[getCurrentInnings.currentBowler].overs
       = config.maxOversPerBowler
  /\ getCurrentInnings.balls = 0

\* ---------------------------------------------------------------- C26

\* C26: once an innings has status completed, no operation changes any of
\* its fields.
C26_CompletedInningsIsSealed ==
  [][\A n \in DOMAIN innings :
       innings[n].status = INNINGS_COMPLETED => innings'[n] = innings[n]]_vars

\* ---------------------------------------------------------------- C27

\* C27: the log getMatchEvents returns grows by the accepted delivery at its
\* end, and an undoLastBall removes exactly its last entry, or fails and
\* changes nothing when the log is empty; so the log is the accepted
\* deliveries in submission order with the undone ones removed last first.
C27_LogIsLastInFirstOut ==
  [][/\ Accepted => getMatchEvents' = Append(getMatchEvents, Len(eventStore'))
     /\ reply'.op = "undoLastBall" =>
          IF getMatchEvents = <<>> THEN Rejected
          ELSE /\ reply'.error = OK
               /\ getMatchEvents' = SubSeq(getMatchEvents, 1, Len(getMatchEvents) - 1)
     /\ reply'.op \notin {"undoLastBall", "processBall"} =>
          getMatchEvents' = getMatchEvents]_vars

\* Two deliveries were accepted and both undone: the log is empty.
C27_Witness_AllUndone ==
  /\ Len(eventStore) = 2
  /\ getMatchEvents = <<>>
  /\ reply = Reply("undoLastBall", OK)

\* ---------------------------------------------------------------- C28

\* The runs off the bat that count for the batsman and against the bowler:
\* none when the extra is a bye or a leg-bye.
CountedOffBat(e) ==
  IF e.payload.extras.type \in {BYE, LEG_BYE} THEN 0 ELSE e.payload.runsScored

\* C28: an accepted delivery adds to the striker's runs the runs off the bat,
\* or nothing if the extra is a bye or a leg-bye, and to the bowler's runs
\* conceded the same plus the extras runs of a wide or a no-ball; the runs of
\* byes, leg-byes and penalties are not added to the bowler's.
C28_RunsOfBatsmanAndBowler ==
  [][Accepted =>
       /\ StrikerAfter.runs = StrikerBefore.runs + CountedOffBat(Delivered)
       /\ After.bowlerStats[Delivered.actors.bowler].runsConceded
            = Before.bowlerStats[Delivered.actors.bowler].runsConceded
              + CountedOffBat(Delivered)
              + (IF Delivered.payload.extras.type \in {WIDE, NO_BALL}
                 THEN Delivered.payload.extras.runs ELSE 0)]_vars

\* A delivery recorded as byes, with a run off the bat submitted too: neither
\* the striker nor the bowler has runs from it, the total has.
C28_Witness_ByesChargeNobody ==
  /\ Len(eventStore) = 1
  /\ eventStore[1].payload.extras = [type |-> BYE, runs |-> 5]
  /\ eventStore[1].payload.runsScored = 1
  /\ getCurrentInnings.batsmanStats["b1"].runs = 0
  /\ getCurrentInnings.bowlerStats["w1"].runsConceded = 0
  /\ getCurrentInnings.totalRuns > 0

\* ---------------------------------------------------------------- C29

\* C29: for every event of the log, context.isPowerplay is true if and only
\* if the over the delivery was bowled in, its period.over counted from 1, is
\* one of config.powerplayOvers; the sixth legal ball of an over included.
C29_PowerplayFlag ==
  \A i \in 1..Len(events) :
    eventStore[events[i]].context.isPowerplay
      <=> (eventStore[events[i]].period.over + 1) \in config.powerplayOvers

\* ---------------------------------------------------------------- C30

\* The positions of the live log before the step that hold a delivery of the
\* current innings.
LiveOfInnings ==
  {i \in 1..Len(getMatchEvents) :
     eventStore[getMatchEvents[i]].period.innings = Before.inningsNumber}

\* The last live delivery of the current innings before the step is a no-ball.
PrecededByNoBall ==
  /\ LiveOfInnings # {}
  /\ \E i \in LiveOfInnings :
       /\ \A j \in LiveOfInnings : j <= i
       /\ eventStore[getMatchEvents[i]].payload.extras.type = NO_BALL

\* C30: the free-hit flag of an accepted delivery, in its context and in its
\* payload, is true if and only if freeHitOnNoBall is set and the preceding
\* live delivery of the same innings was a no-ball; the first delivery of an
\* innings and a delivery after an undone no-ball are not free hits.
C30_FreeHitFlag ==
  [][Accepted =>
       /\ Delivered.context.isFreeHit <=> (config.freeHitOnNoBall /\ PrecededByNoBall)
       /\ Delivered.payload.isFreeHit <=> (config.freeHitOnNoBall /\ PrecededByNoBall)]_vars

\* ---------------------------------------------------------------- C31

\* The step is a startInnings call that returned.
InningsStarted == reply'.op = "startInnings" /\ Returned

\* The innings it created.
Started == innings'[currentInnings']

\* C31: startInnings for the second innings sets target to the first
\* innings' totalRuns at that moment plus 1, requiredRuns to the target and
\* remainingBalls to 6 x oversPerInnings; startInnings for the first innings
\* sets no target; and no later step changes the target of an innings.
C31_TargetOfTheSecondInnings ==
  [][/\ InningsStarted /\ status = INNINGS_BREAK =>
          /\ currentInnings' = 2
          /\ Started.target = Some(innings[1].totalRuns + 1)
          /\ Started.requiredRuns = Started.target
          /\ Started.remainingBalls = Some(6 * config.oversPerInnings)
     /\ InningsStarted /\ status = TOSS =>
          /\ currentInnings' = 1
          /\ Started.target = None
     /\ \A n \in DOMAIN innings :
          n \in DOMAIN innings' /\ innings'[n].target = innings[n].target]_vars

\* The second innings was started after a first innings of 2 runs and has
\* scored 1 run since: its target is still 3.
C31_Witness_TargetKeptDuringTheChase ==
  /\ currentInnings = 2
  /\ innings[1].totalRuns = 2
  /\ innings[2].totalRuns = 1
  /\ innings[2].target = Some(3)
  /\ innings[2].requiredRuns = Some(2)

\* ---------------------------------------------------------------- C32

\* The innings' batting and bowling teams are the two teams of the match.
TwoTeamsOfTheMatch(inn) ==
  /\ inn.battingTeamId # inn.bowlingTeamId
  /\ {inn.battingTeamId, inn.bowlingTeamId} = {TeamA, TeamB}

\* The batting team of the first innings is the toss winner when the decision
\* is bat, and the winner bowls when it is bowl; the second innings has the
\* teams of the first exchanged.
BattingOrderFollowsTheToss ==
  /\ 1 \in DOMAIN innings =>
       /\ tossDecision = "bat" => innings[1].battingTeamId = tossWinner
       /\ tossDecision = "bowl" => innings[1].bowlingTeamId = tossWinner
  /\ 2 \in DOMAIN innings =>
       /\ innings[2].battingTeamId = innings[1].bowlingTeamId
       /\ innings[2].bowlingTeamId = innings[1].battingTeamId

MilestoneNotifications ==
  {Emit("token.rewards", Undefined), Emit("ball.bowled", Undefined)}
  \cup {Emit("commentary.trigger", t) :
          t \in {"fifty", "hundred", "five_wicket_haul", "hat_trick"}}

\* The notifications of a completed innings or match.
CompletionNotifications ==
  {Emit("innings.ended", Undefined), Emit("match.ended", Undefined)}

\* The places of the notifications of S among those of the step's call.
EmittedAt(S) == {i \in DOMAIN emitted' : emitted'[i] \in S}

\* C33: for an accepted delivery that both fires a milestone and completes
\* the innings or the match, the reward and milestone commentary notifications
\* and the ball notification are emitted before the innings.ended or
\* match.ended notification it causes.
C33_MilestonesBeforeCompletion ==
  [][/\ Accepted
     /\ reply'.rewards # <<>>
     /\ After.status = INNINGS_COMPLETED
     => /\ EmittedAt(CompletionNotifications) # {}
        /\ \A i \in EmittedAt(MilestoneNotifications),
              j \in EmittedAt(CompletionNotifications) : i < j]_vars

\* ---------------------------------------------------------------- C34

\* The bowlers of the deliveries of over k (period.over, from 0) of innings n
\* that are legal under the configuration's toggles.
LegalBowlersOfOver(n, k) ==
  {eventStore[events[i]].actors.bowler :
     i \in {j \in 1..Len(events) :
              /\ eventStore[events[j]].period.innings = n
              /\ eventStore[events[j]].period.over = k
              /\ ~IllegalByToggles(eventStore[events[j]])}}

\* C34: all legal deliveries of any one over of an innings are bowled by the
\* same bowler, for any interleaving of processBall and changeBowler calls.
C34_OneBowlerPerOver ==
  \A n \in DOMAIN innings :
    \A k \in 0..innings[n].overs :
      Cardinality(LegalBowlersOfOver(n, k)) <= 1

\* The same, for the deliveries that advanced the ball counter: those that
\* are neither wides nor no-balls.
C34_CountedDeliveries_OneBowlerPerOver ==
  \A n \in DOMAIN innings :
    \A k \in 0..innings[n].overs :
      Cardinality(BowlersOfOver(n, k)) <= 1

\* ---------------------------------------------------------------- C35

\* How many notifications of that name the step's call emitted.
EmittedCount(name) == Cardinality({i \in DOMAIN emitted' : emitted'[i].name = name})

\* The step is the accepted delivery that completes innings n.
Completes(n) ==
  /\ Accepted
  /\ currentInnings = n
  /\ Before.status = IN_PROGRESS
  /\ After.status = INNINGS_COMPLETED

\* C35: innings.ended is emitted once by the delivery that completes the
\* first innings and match.ended once by the delivery that completes the
\* second, and by no other step; a completed innings stays completed
\* whatever is called later, so neither is emitted a second time.
C35_CompletionNotifiedOnce ==
  [][/\ EmittedCount("innings.ended") = (IF Completes(1) THEN 1 ELSE 0)
     /\ EmittedCount("match.ended") = (IF Completes(2) THEN 1 ELSE 0)
     /\ \A n \in DOMAIN innings :
          innings[n].status = INNINGS_COMPLETED =>
            n \in DOMAIN innings' /\ innings'[n].status = INNINGS_COMPLETED]_vars

\* The match is completed and its last delivery has been undone since: the
\* undo emitted nothing.
C35_Witness_UndoAfterTheMatch ==
  /\ status = COMPLETED
  /\ innings[1].status = INNINGS_COMPLETED
  /\ innings[2].status = INNINGS_COMPLETED
  /\ reply = Reply("undoLastBall", OK)
  /\ \A i \in DOMAIN emitted : emitted[i].name \notin {"innings.ended", "match.ended"}

\* ---------------------------------------------------------------- C36

\* C36: processBall rejects, with no state change, every delivery whose
\* innings number differs from the match's current innings, so that a
\* delivery is only ever applied to the innings it names.
C36_DeliveryOfAnotherInningsRejected ==
  [][HasCurrentInnings =>
       \A dto \in NamedBallInputs :
         (dto.innings # currentInnings /\ processBall(dto)) => Rejected]_vars

\* ---------------------------------------------------------------- C37

\* The personal runs of the batsmen of S in the statistics stats, added up.
RECURSIVE RunsOfBatsmen(_, _)
RunsOfBatsmen(stats, S) ==
  IF S = {} THEN 0
  ELSE LET b == CHOOSE x \in S : TRUE
       IN stats[b].runs + RunsOfBatsmen(stats, S \ {b})

\* C37: in every innings totalRuns is the sum of all batsmen's personal runs
\* plus extras.total, and extras.total is wides + noBalls + byes + legByes +
\* penalties.
C37_TotalIsBatsmenPlusExtras ==
  \A n \in DOMAIN innings :
    LET inn == innings[n]
    IN /\ inn.totalRuns
            = RunsOfBatsmen(inn.batsmanStats, DOMAIN inn.batsmanStats) + inn.extras.total
       /\ inn.extras.total
            = inn.extras.wides + inn.extras.noBalls + inn.extras.byes
              + inn.extras.legByes + inn.extras.penalties

\* The same identities, while every bye and leg-bye came with no runs entered
\* as scored.
C37_NoRunsScoredWithByes_TotalIsBatsmenPlusExtras ==
  (\A i \in DOMAIN eventStore :
     eventStore[i].payload.extras.type \in {BYE, LEG_BYE} =>
       eventStore[i].payload.runsScored = 0)
  => C37_TotalIsBatsmenPlusExtras

\* ---------------------------------------------------------------- C38

\* The batsmen of the innings whose out flag is set.
OutBatsmen(inn) == {b \in DOMAIN inn.batsmanStats : inn.batsmanStats[b].isOut}

\* wickets is the number of fall-of-wicket records, numbered from 1 in order,
\* and the number of batsmen who are out.
WicketsAccounted(inn) ==
  /\ Len(inn.fallOfWickets) = inn.wickets
  /\ \A i \in DOMAIN inn.fallOfWickets : inn.fallOfWickets[i].wicketNumber = i
  /\ Cardinality(OutBatsmen(inn)) = inn.wickets

\* C38: in every state of an innings, wickets equals the number of
\* fall-of-wicket records, numbered 1..wickets in order, and the number of
\* distinct batsmen whose out flag is set; and no delivery is accepted with an
\* already dismissed batsman as striker.
C38_WicketsAreDistinctBatsmen ==
  /\ [](\A n \in DOMAIN innings : WicketsAccounted(innings[n]))
  /\ [][Accepted =>
          ~Before.batsmanStats[Delivered.actors.batsmanOnStrike].isOut]_vars

\* The fall-of-wicket records alone: as many as wickets, numbered in order.
C38_FallOfWicketsNumbered ==
  \A n \in DOMAIN innings :
    /\ Len(innings[n].fallOfWickets) = innings[n].wickets
    /\ \A i \in DOMAIN innings[n].fallOfWickets :
         innings[n].fallOfWickets[i].wicketNumber = i

\* ---------------------------------------------------------------- C39

\* The runs of the partnerships of the innings, added up.
PartnershipRuns(inn) ==
  SumSeq([i \in 1..Len(inn.partnerships) |-> inn.partnerships[i].runs])

\* The partnerships' runs sum to totalRuns and every closed partnership made
\* the runs between its start and its end score.
PartnershipsAccounted(inn) ==
  /\ PartnershipRuns(inn) = inn.totalRuns
  /\ \A i \in 1..Len(inn.partnerships) :
       ~inn.partnerships[i].isActive =>
         /\ IsSome(inn.partnerships[i].endScore)
         /\ Val(inn.partnerships[i].endScore) - inn.partnerships[i].startScore
              = inn.partnerships[i].runs

\* The delivery's runs went to the partnership of the two batsmen at the crease.
CreditedToTheCrease ==
  LET p == ActivePartnership(Before)
  IN /\ p # 0
     /\ {Before.partnerships[p].batsman1, Before.partnerships[p].batsman2}
          = {Before.batsmanOnStrike, Before.batsmanNonStrike}
     /\ After.partnerships[p].runs
          = Before.partnerships[p].runs + TotalRuns(Delivered.payload)

\* C39: in every state of an innings the runs of all its partnerships sum to
\* totalRuns and every closed partnership satisfies endScore - startScore =
\* runs; the runs of every accepted delivery are added to the partnership of
\* the two batsmen at the crease.
C39_PartnershipAccounting ==
  /\ [](\A n \in DOMAIN innings : PartnershipsAccounted(innings[n]))
  /\ [][Accepted => CreditedToTheCrease]_vars

\* The state part alone.
C39_PartnershipsSumToTotal ==
  \A n \in DOMAIN innings : PartnershipsAccounted(innings[n])

\* ---------------------------------------------------------------- C40

\* How many powerplay_end triggers the step's call emitted.
PowerplayEndTriggers ==
  Cardinality({i \in DOMAIN emitted' :
                 emitted'[i] = Emit("commentary.trigger", "powerplay_end")})

\* The accepted delivery completes a powerplay over that a non-powerplay over
\* follows.
EndsThePowerplay ==
  /\ After.overs = Before.overs + 1
  /\ After.overs < config.oversPerInnings
  /\ isPowerplayOver(Before.overs, config)
  /\ ~isPowerplayOver(After.overs, config)

\* C40: an accepted delivery emits the powerplay_end trigger once if it
\* completes a powerplay over that is followed by a non-powerplay over, and
\* not at all otherwise.
C40_PowerplayEndOnce ==
  [][Accepted => PowerplayEndTriggers = (IF EndsThePowerplay THEN 1 ELSE 0)]_vars

====
